---- MODULE Spec2Model ----
(***************************************************************************)
(* A model of ficture: the grid-transform engine (src/src/map.rs), the      *)
(* biome colour evaluator (src/src/lib/color.rs), the configuration         *)
(* (src/src/lib/config.rs), the noise field (src/src/noise.rs), the image   *)
(* conversion (src/src/image.rs) and the command line tool                  *)
(* (src/src/cmd/main.rs).                                                   *)
(*                                                                         *)
(* Spec           the chain return_single -> (and_then |                    *)
(*                and_then_with_coordinates)* -> extract into               *)
(*                pixel_map_to_image, with the per-cell calls of a          *)
(*                transform executed by parallel workers in any order.      *)
(* SpecColor      ColorEvaluator::from_biomes followed by evaluate calls.   *)
(* SpecNormalize  normalize calls over a fixed range.                       *)
(* SpecConfig     Config::validate on a loaded configuration file.          *)
(* SpecNoise      two runs that build a noise field from the same           *)
(*                arguments and call generate in any order.                 *)
(* SpecMain       main of the command line tool, statement by statement.    *)
(* SpecSample     and_then_with_coordinates over generate, call by call,    *)
(*                with an index out of bounds as a panic.                   *)
(* SpecLock       the colouring and_then, worker by worker, through the     *)
(*                Mutexes of the gradient closures; SpecLockFair adds the   *)
(*                fair scheduling of the pool's threads.                    *)
(*                                                                         *)
(* f64 values are modelled as exact rationals [num, den]; den = 0 holds     *)
(* NaN and the infinities.                                                  *)
(***************************************************************************)
EXTENDS Integers, Sequences, FiniteSets, TLC

VARIABLES
    pc,            \* position in the chain: start, idle, and_then, coords, extracted
    map,           \* the current Map: [width, height, inner]
    args,          \* the arguments return_single was called with
    input,         \* `self` of the transform call in progress / last completed
    fn,            \* the function f passed to that call
    kind,          \* the operation that produced `map`
    results,       \* per-cell results the workers have produced so far
    outOfOrder,    \* some worker finished a cell while an earlier cell was pending
    steps,         \* number of transforms applied so far
    sinkCalls,     \* calls made to extract's sink: <<[values, width, height]>>
    image,         \* the image the sink pixel_map_to_image returned
    cpc,           \* colour side: config, built, evaluated
    biomes,        \* the Biomes configuration (elevation_levels)
    elevation_ranges,  \* ColorEvaluator.elevation_ranges
    call,          \* arguments of the last evaluate call
    sel,           \* bands the last evaluate call selected (0: none)
    gradient_arg,  \* normalized_elevation the last call passed to get_color
    final_color,   \* value the last evaluate call returned
    norm,          \* utils::normalize under test: [min, max, results]
    config,        \* the Config under validation
    verdict,       \* what Config::validate returned
    settings,      \* noise side: the arguments both runs build their field from
    fields,        \* per run, the SimplexNoiseGenerator it built (<<>>: none yet)
    samples,       \* per run, the generate calls so far: <<[x, y, value]>>
    main,          \* the command line tool: position and local variables of main
    sampling,      \* one and_then_with_coordinates over generate, call by call
    tasks,         \* colouring and_then: per cell, the Mutex its closure locks, its pixel
    worker,        \* per worker: the cell it colours and how far it has got
    holder,        \* per gradient Mutex: the worker holding it (0: unlocked)
    coloured       \* the cells whose closure has returned

mapVars == <<pc, map, args, input, fn, kind, results, outOfOrder, steps, sinkCalls,
            image>>
colorVars == <<cpc, biomes, elevation_ranges, call, sel, gradient_arg, final_color>>
normVars == <<norm>>
configVars == <<config, verdict>>
noiseVars == <<settings, fields, samples>>
mainVars == <<main>>
sampleVars == <<sampling>>
lockVars == <<tasks, worker, holder, coloured>>
extVars == <<normVars, configVars, noiseVars, mainVars, sampleVars, lockVars>>
vars == <<mapVars, colorVars, extVars>>

(***************************************************************************)
(* Bounds of the model.                                                     *)
(***************************************************************************)
MaxWidth == 3
MaxHeight == 2
MaxSteps == 2

\* Values return_single is called with.
CellValues == {0, 1}

\* Functions passed to and_then and to and_then_with_coordinates.
CellFns == {"inc", "double"}
CoordFns == {"mul", "index", "offset"}

(***************************************************************************)
(* Grid engine: src/src/map.rs                                              *)
(***************************************************************************)

\* F: Fn(T) -> U, the argument of and_then.
ApplyF(f, cell) ==
    CASE f = "inc" -> cell + 1
      [] f = "double" -> 2 * cell

\* F: Fn(&T, usize, usize) -> U, the argument of and_then_with_coordinates.
ApplyXY(f, cell, x, y) ==
    CASE f = "mul" -> x * y
      [] f = "index" -> y * 10 + x
      [] f = "offset" -> cell + x + 3 * y

\* The state before return_single: no Map has been built.
EmptyMap == [width |-> 0, height |-> 0, inner |-> <<>>]

NoArgs == [value |-> 0, width |-> 0, height |-> 0]

\* vec![value; width * height] with a wrong element count.
FillShort(value, width, height) == [i \in 1..(width + height) |-> value]

\* vec![value; width * height]
Fill(value, width, height) == [i \in 1..(width * height) |-> value]

\* Map::return_single
ReturnSingle(value, width, height) ==
    /\ pc = "start"
    /\ map' = [width |-> width, height |-> height, inner |-> Fill(value, width, height)]
    /\ args' = [value |-> value, width |-> width, height |-> height]
    /\ kind' = "return_single"
    /\ pc' = "idle"
    /\ UNCHANGED <<input, fn, results, outOfOrder, steps, sinkCalls>>
    /\ UNCHANGED <<colorVars, extVars, image>>

\* and_then: self.inner.into_par_iter().map(|cell| f(cell)) is set up.
AndThenBegin(f) ==
    /\ pc = "idle"
    /\ steps < MaxSteps
    /\ pc' = "and_then"
    /\ input' = map
    /\ fn' = f
    /\ results' = <<>>
    /\ outOfOrder' = FALSE
    /\ UNCHANGED <<map, args, kind, steps, sinkCalls>>
    /\ UNCHANGED <<colorVars, extVars, image>>

\* One worker runs f on the cell at position i (0-based) of self.inner.
AndThenCell(i) ==
    /\ pc = "and_then"
    /\ i \in 0..(Len(input.inner) - 1)
    /\ i \notin DOMAIN results
    /\ results' = results @@ (i :> ApplyF(fn, input.inner[i + 1]))
    /\ outOfOrder' = (outOfOrder \/ \E j \in 0..(i - 1) : j \notin DOMAIN results)
    /\ UNCHANGED <<pc, map, args, input, fn, kind, steps, sinkCalls>>
    /\ UNCHANGED <<colorVars, extVars, image>>

\* Map { width: self.height, height: self.width, inner }: the dimensions exchanged.
NewMapTransposed(self, new_inner) ==
    [width |-> self.height, height |-> self.width, inner |-> new_inner]

\* Map { width: self.width, height: self.height, inner: new_inner }
NewMap(self, new_inner) ==
    [width |-> self.width, height |-> self.height, inner |-> new_inner]

\* collect() placing the results last position first.
CollectIndexedReversed(res, n) == [i \in 1..n |-> res[n - i]]

\* collect() of an indexed parallel iterator: result i goes to position i.
CollectIndexed(res, n) == [i \in 1..n |-> res[i - 1]]

\* and_then: every cell is done; collect() and build the new Map.
AndThenCollect ==
    /\ pc = "and_then"
    /\ DOMAIN results = 0..(Len(input.inner) - 1)
    /\ map' = NewMap(input, CollectIndexed(results, Len(input.inner)))
    /\ kind' = "and_then"
    /\ steps' = steps + 1
    /\ pc' = "idle"
    /\ UNCHANGED <<args, input, fn, results, outOfOrder, sinkCalls>>
    /\ UNCHANGED <<colorVars, extVars, image>>

\* and_then_with_coordinates: the nested parallel ranges are set up.
CoordsBegin(f) ==
    /\ pc = "idle"
    /\ steps < MaxSteps
    /\ pc' = "coords"
    /\ input' = map
    /\ fn' = f
    /\ results' = <<>>
    /\ outOfOrder' = FALSE
    /\ UNCHANGED <<map, args, kind, steps, sinkCalls>>
    /\ UNCHANGED <<colorVars, extVars, image>>

\* inner_ref[y * self.width + x], as a 1-based position of the sequence.
CellAt(m, x, y) == m.inner[y * m.width + x + 1]

\* One worker runs f(&inner_ref[y * self.width + x], x, y).
CoordsCell(x, y) ==
    /\ pc = "coords"
    /\ x \in 0..(input.width - 1)
    /\ y \in 0..(input.height - 1)
    /\ <<x, y>> \notin DOMAIN results
    /\ results' = results @@ (<<x, y>> :> ApplyXY(fn, CellAt(input, x, y), x, y))
    /\ outOfOrder' = (outOfOrder \/ \E x2 \in 0..(input.width - 1), y2 \in 0..(input.height - 1) :
                          /\ y2 * input.width + x2 < y * input.width + x
                          /\ <<x2, y2>> \notin DOMAIN results)
    /\ UNCHANGED <<pc, map, args, input, fn, kind, steps, sinkCalls>>
    /\ UNCHANGED <<colorVars, extVars, image>>

\* The items of the inner range (0..self.width) for row y, in range order.
RowOf(res, width, y) == [k \in 1..width |-> res[<<k - 1, y>>]]

RECURSIVE CollectRowsFrom(_, _, _, _)
\* flat_map(..).collect(): the rows y, y+1, .., height-1 concatenated in range order.
CollectRowsFrom(res, width, height, y) ==
    IF y >= height THEN <<>>
    ELSE RowOf(res, width, y) \o CollectRowsFrom(res, width, height, y + 1)

RECURSIVE CollectRowsBackFrom(_, _, _, _)
\* The rows concatenated last row first.
CollectRowsBackFrom(res, width, height, y) ==
    IF y >= height THEN <<>>
    ELSE CollectRowsBackFrom(res, width, height, y + 1) \o RowOf(res, width, y)

\* collect() with the rows in the wrong order.
CollectRowsReversed(res, width, height) == CollectRowsBackFrom(res, width, height, 0)

\* (0..self.height).into_par_iter().flat_map(..).collect()
CollectRows(res, width, height) == CollectRowsFrom(res, width, height, 0)

\* and_then_with_coordinates: every cell is done; collect() and build the new Map.
CoordsCollect ==
    /\ pc = "coords"
    /\ DOMAIN results = (0..(input.width - 1)) \X (0..(input.height - 1))
    /\ map' = NewMap(input, CollectRows(results, input.width, input.height))
    /\ kind' = "coords"
    /\ steps' = steps + 1
    /\ pc' = "idle"
    /\ UNCHANGED <<args, input, fn, results, outOfOrder, sinkCalls>>
    /\ UNCHANGED <<colorVars, extVars, image>>

(***************************************************************************)
(* Image conversion: src/src/image.rs                                       *)
(***************************************************************************)

\* The sink ran out of pixels: pixel_iter.next().unwrap() panicked.
ImagePanic == [panicked |-> TRUE]

\* RgbImage::new(width as u32, height as u32): every pixel zero.  The widths
\* and heights of the model are below 2^32, where the cast keeps the value.
RgbImageNew(width, height) ==
    [width |-> width,
     height |-> height,
     pixels |-> [xy \in (0..(width - 1)) \X (0..(height - 1)) |-> 0]]

RECURSIVE PutPixelsByColumn(_, _, _, _, _, _, _)
\* The loops exchanged: for x in 0..width { for y in 0..height { .. } }
PutPixelsByColumn(img, pixels, width, height, x, y, next) ==
    IF x >= width THEN img
    ELSE IF y >= height
    THEN PutPixelsByColumn(img, pixels, width, height, x + 1, 0, next)
    ELSE IF next > Len(pixels) THEN ImagePanic
    ELSE PutPixelsByColumn([img EXCEPT !.pixels[<<x, y>>] = pixels[next]],
                           pixels, width, height, x, y + 1, next + 1)

RECURSIVE PutPixels(_, _, _, _, _, _, _)
\* for y in 0..height { for x in 0..width { image.put_pixel(x, y,
\* *pixel_iter.next().unwrap()) } } from (x, y) on; `next` is the position of
\* pixel_iter.
PutPixels(img, pixels, width, height, x, y, next) ==
    IF y >= height THEN img
    ELSE IF x >= width
    THEN PutPixels(img, pixels, width, height, 0, y + 1, next)
    ELSE IF next > Len(pixels) THEN ImagePanic
    ELSE PutPixels([img EXCEPT !.pixels[<<x, y>>] = pixels[next]],
                   pixels, width, height, x + 1, y, next + 1)

\* image::pixel_map_to_image
PixelMapToImage(pixels, width, height) ==
    PutPixels(RgbImageNew(width, height), pixels, width, height, 0, 0, 1)

\* The sink called with width and height exchanged.
SinkArgsSwapped(m) == [values |-> m.inner, width |-> m.height, height |-> m.width]

\* f(self.inner, self.width, self.height)
SinkArgs(m) == [values |-> m.inner, width |-> m.width, height |-> m.height]

\* extract: the Map is consumed and the sink is called.
Extract ==
    /\ pc = "idle"
    /\ sinkCalls' = Append(sinkCalls, SinkArgs(map))
    /\ image' = PixelMapToImage(SinkArgs(map).values, SinkArgs(map).width,
                                SinkArgs(map).height)
    /\ map' = EmptyMap
    /\ pc' = "extracted"
    /\ UNCHANGED <<args, input, fn, kind, results, outOfOrder, steps>>
    /\ UNCHANGED <<colorVars, extVars>>

MapInit ==
    /\ pc = "start"
    /\ map = EmptyMap
    /\ args = NoArgs
    /\ input = EmptyMap
    /\ fn = "none"
    /\ kind = "none"
    /\ results = <<>>
    /\ outOfOrder = FALSE
    /\ steps = 0
    /\ sinkCalls = <<>>
    /\ image = <<>>

MapNext ==
    \/ \E v \in CellValues, w \in 0..MaxWidth, h \in 0..MaxHeight : ReturnSingle(v, w, h)
    \/ \E f \in CellFns : AndThenBegin(f)
    \/ \E i \in 0..(MaxWidth * MaxHeight) : AndThenCell(i)
    \/ AndThenCollect
    \/ \E f \in CoordFns : CoordsBegin(f)
    \/ \E x \in 0..MaxWidth, y \in 0..MaxHeight : CoordsCell(x, y)
    \/ CoordsCollect
    \/ Extract

\* The colour side before any configuration is loaded.
ColorIdle ==
    /\ cpc = "config"
    /\ biomes = <<>>
    /\ elevation_ranges = <<>>
    /\ call = <<>>
    /\ sel = <<>>
    /\ gradient_arg = <<>>
    /\ final_color = <<>>

\* The parts of the model outside the grid engine and the colour evaluator,
\* before anything is loaded or called.
NormIdle == norm = <<>>

ConfigIdle == config = <<>> /\ verdict = <<>>

NoiseIdle == settings = <<>> /\ fields = <<>> /\ samples = <<>>

MainIdle == main = <<>>

SampleIdle == sampling = <<>>

LockIdle == tasks = <<>> /\ worker = <<>> /\ holder = <<>> /\ coloured = <<>>

ExtIdle ==
    /\ NormIdle
    /\ ConfigIdle
    /\ NoiseIdle
    /\ MainIdle
    /\ SampleIdle
    /\ LockIdle

Init == MapInit /\ ColorIdle /\ ExtIdle

Next == MapNext

Spec == Init /\ [][Next]_vars

(***************************************************************************)
(* f64 arithmetic.  A finite value is an exact rational in lowest terms     *)
(* with den > 0; den = 0 holds the non-finite values: num = 0 is NaN,       *)
(* num = 1 is +inf and num = -1 is -inf.  Signed zeros are not told apart.  *)
(***************************************************************************)

Abs(n) == IF n < 0 THEN -n ELSE n

Sign(n) == IF n < 0 THEN -1 ELSE IF n > 0 THEN 1 ELSE 0

RECURSIVE Gcd(_, _)
Gcd(a, b) == IF b = 0 THEN a ELSE Gcd(b, a % b)

\* The f64 value num/den; x/0 is an infinity and 0/0 is NaN.
Rat(num, den) ==
    IF den = 0
    THEN [num |-> Sign(num), den |-> 0]
    ELSE LET g == Gcd(Abs(num), Abs(den))
             s == IF den < 0 THEN -1 ELSE 1
         IN  [num |-> s * (num \div g), den |-> s * (den \div g)]

NaN == [num |-> 0, den |-> 0]
IsNaN(a) == a.den = 0 /\ a.num = 0
IsFinite(a) == a.den # 0

RatNeg(a) == [num |-> -a.num, den |-> a.den]

RatAdd(a, b) ==
    IF IsFinite(a) /\ IsFinite(b)
    THEN Rat(a.num * b.den + b.num * a.den, a.den * b.den)
    ELSE IF IsNaN(a) \/ IsNaN(b) THEN NaN
    ELSE IF IsFinite(b) THEN a
    ELSE IF IsFinite(a) THEN b
    ELSE IF a.num = b.num THEN a ELSE NaN

RatSub(a, b) == RatAdd(a, RatNeg(b))

RatMul(a, b) ==
    IF IsFinite(a) /\ IsFinite(b)
    THEN Rat(a.num * b.num, a.den * b.den)
    ELSE IF IsNaN(a) \/ IsNaN(b) \/ a.num = 0 \/ b.num = 0 THEN NaN
    ELSE [num |-> Sign(a.num) * Sign(b.num), den |-> 0]

RatDiv(a, b) ==
    IF IsFinite(a) /\ IsFinite(b)
    THEN Rat(a.num * b.den, a.den * b.num)
    ELSE IF IsNaN(a) \/ IsNaN(b) THEN NaN
    ELSE IF IsFinite(a) THEN [num |-> 0, den |-> 1]
    ELSE IF IsFinite(b) THEN [num |-> a.num * (IF b.num < 0 THEN -1 ELSE 1), den |-> 0]
    ELSE NaN

\* Every comparison with NaN is false.
RatLeq(a, b) ==
    /\ ~IsNaN(a)
    /\ ~IsNaN(b)
    /\ IF a.den = 0 /\ b.den = 0 THEN a.num <= b.num
       ELSE a.num * b.den <= b.num * a.den

RatLt(a, b) ==
    /\ ~IsNaN(a)
    /\ ~IsNaN(b)
    /\ IF a.den = 0 /\ b.den = 0 THEN a.num < b.num
       ELSE a.num * b.den < b.num * a.den

\* 0.0 and 1.0
Zero == [num |-> 0, den |-> 1]
One == [num |-> 1, den |-> 1]

\* (value - min) / max: the divisor is not the width of the range.
NormalizeByMax(value, min, max) == RatDiv(RatSub(value, min), max)

\* utils::normalize
Normalize(value, min, max) == RatDiv(RatSub(value, min), RatSub(max, min))

(***************************************************************************)
(* Colour evaluator: src/src/lib/color.rs                                   *)
(***************************************************************************)
MaxLevels == 2
MaxWeight == 2
Resolution == 4

\* Color::from_html of "#000000", "#ffffff", "#0a46ad", "#35d6f2", "#3b3b3b",
\* "#6e6e6e": the channels r, g, b, each in units of 1/255.
Black == <<0, 0, 0>>
White == <<255, 255, 255>>
Palette ==
    << <<Black, White>>,
       << <<10, 70, 173>>, <<53, 214, 242>> >>,
       << <<59, 59, 59>>, <<110, 110, 110>>, White >> >>

\* Weight lists of one to MaxLevels levels, every weight in 1..MaxWeight.
WeightLists == UNION {[1..n -> 1..MaxWeight] : n \in 1..MaxLevels}

\* The moisture levels of elevation level i: level 1 has all of `mw`, each
\* further level one fewer (at least one), with gradients taken in turn from
\* the palette.
MoistureLevels(i, mw) ==
    LET count == IF Len(mw) - (i - 1) < 1 THEN 1 ELSE Len(mw) - (i - 1)
    IN  [j \in 1..count |->
            [moisture |-> mw[j],
             gradient |-> Palette[((i + j - 2) % Len(Palette)) + 1]]]

\* Biomes.elevation_levels for elevation weights ew and moisture weights mw.
BiomesOf(ew, mw) ==
    [i \in 1..Len(ew) |->
        [elevation |-> ew[i], moisture_levels |-> MoistureLevels(i, mw)]]

\* The configurations the model loads.
Configs ==
    {BiomesOf(ew, mw) : ew \in WeightLists, mw \in WeightLists}

\* The arguments evaluate is called with: -1/R, 0, 1/R, .., 1, (R+1)/R.
Samples == {Rat(k, Resolution) : k \in (-1)..(Resolution + 1)}

RECURSIVE SumElevation(_, _)
\* Biomes::total_elevation: fold(0.0, |acc, level| acc + level.elevation) from level i on
SumElevation(levels, i) ==
    IF i > Len(levels) THEN 0 ELSE levels[i].elevation + SumElevation(levels, i + 1)

\* A total that counts one unit of weight no level has.
TotalElevationOver(levels) == SumElevation(levels, 1) + 1

\* Biomes::total_elevation
TotalElevation(levels) == SumElevation(levels, 1)

RECURSIVE SumMoisture(_, _)
\* ElevationLevel::total_moisture: the fold from level j on
SumMoisture(levels, j) ==
    IF j > Len(levels) THEN 0 ELSE levels[j].moisture + SumMoisture(levels, j + 1)

\* ElevationLevel::total_moisture
TotalMoisture(level) == SumMoisture(level.moisture_levels, 1)

\* cumulative = weight: the running sum is overwritten instead of added to.
AddWeightOverwrite(cumulative, weight) == weight

\* cumulative_moisture += moisture_level.moisture;
\* cumulative_elevation += elevation_level.elevation
AddWeight(cumulative, weight) == cumulative + weight

RECURSIVE MoistureGradients(_, _, _, _)
\* from_biomes: the inner loop from moisture level j on, cumulative_moisture
\* holding the sum of the levels before j.
MoistureGradients(levels, total_moisture, j, cumulative_moisture) ==
    IF j > Len(levels) THEN <<>>
    ELSE LET cumulative == AddWeight(cumulative_moisture, levels[j].moisture)
         IN  <<[moisture |-> Rat(cumulative, total_moisture),
                get_color |-> levels[j].gradient]>>
             \o MoistureGradients(levels, total_moisture, j + 1, cumulative)

RECURSIVE ElevationRanges(_, _, _, _)
\* from_biomes: the outer loop from elevation level i on.
ElevationRanges(levels, total_elevation, i, cumulative_elevation) ==
    IF i > Len(levels) THEN <<>>
    ELSE LET cumulative == AddWeight(cumulative_elevation, levels[i].elevation)
         IN  <<[elevation |-> Rat(cumulative, total_elevation),
                moisture_gradients |->
                    MoistureGradients(levels[i].moisture_levels,
                                      TotalMoisture(levels[i]), 1, 0)]>>
             \o ElevationRanges(levels, total_elevation, i + 1, cumulative)

\* ColorEvaluator::from_biomes
FromBiomes ==
    /\ cpc = "config"
    /\ elevation_ranges' = ElevationRanges(biomes, TotalElevation(biomes), 1, 0)
    /\ cpc' = "built"
    /\ UNCHANGED <<biomes, call, sel, gradient_arg, final_color>>
    /\ UNCHANGED <<mapVars, extVars>>

\* The channels (in [0,1]) of the colour at x of a gradient over evenly spaced
\* stops, blended linearly; x outside [0,1] gives the nearest end colour.
GradientAt(colors, x) ==
    LET n == Len(colors)
        channel(c) == [k \in 1..3 |-> Rat(c[k], 255)]
    IN  IF RatLeq(x, Zero) THEN channel(colors[1])
        ELSE IF RatLeq(One, x) THEN channel(colors[n])
        ELSE LET scaled == RatMul(x, Rat(n - 1, 1))
                 low == scaled.num \div scaled.den
                 u == RatSub(scaled, Rat(low, 1))
                 a == channel(colors[low + 1])
                 b == channel(colors[low + 2])
             IN  [k \in 1..3 |-> RatAdd(a[k], RatMul(RatSub(b[k], a[k]), u))]

\* `v as u8` of an f64: truncation toward zero, saturating at 0 and 255; NaN
\* gives 0.
AsU8(v) ==
    IF ~IsFinite(v) THEN (IF v.num > 0 THEN 255 ELSE 0)
    ELSE LET t == IF v.num >= 0 THEN v.num \div v.den ELSE -((-v.num) \div v.den)
         IN  IF t < 0 THEN 0 ELSE IF t > 255 THEN 255 ELSE t

\* color::gradient_to_rgb
GradientToRgb(colors, x) ==
    LET color == GradientAt(colors, x)
    IN  [k \in 1..3 |-> AsU8(RatMul(color[k], Rat(255, 1)))]

\* let mut final_color = Rgb([0, 0, 0])
DefaultColor == <<0, 0, 0>>

\* No gradient was called: normalized_elevation was never computed.
NoArg == [num |-> 0, den |-> 0]

\* elevation < elevation_range.elevation: a strict comparison.
BandMatchesStrict(value, threshold) == RatLt(value, threshold)

\* elevation <= elevation_range.elevation; moisture <= moisture_gradient.moisture
BandMatches(value, threshold) == RatLeq(value, threshold)

RECURSIVE MoistureLoop(_, _, _)
\* evaluate: the inner for loop from moisture gradient j on; the index of the
\* gradient it breaks at, 0 when it runs to the end.
MoistureLoop(moisture_gradients, moisture, j) ==
    IF j > Len(moisture_gradients) THEN 0
    ELSE IF BandMatches(moisture, moisture_gradients[j].moisture) THEN j
    ELSE MoistureLoop(moisture_gradients, moisture, j + 1)

RECURSIVE ElevationLoop(_, _, _, _, _)
\* evaluate: the outer for loop from elevation range i on, cumulative_elevation
\* holding the sum of elevation_range.elevation of the ranges before i.
ElevationLoop(ranges, elevation, moisture, i, cumulative_elevation) ==
    IF i > Len(ranges)
    THEN [elevation |-> 0, moisture |-> 0, arg |-> NoArg, color |-> DefaultColor]
    ELSE IF BandMatches(elevation, ranges[i].elevation)
    THEN LET j == MoistureLoop(ranges[i].moisture_gradients, moisture, 1)
             normalized_elevation ==
                 Normalize(elevation, cumulative_elevation,
                           RatAdd(cumulative_elevation, ranges[i].elevation))
         IN  IF j = 0
             THEN [elevation |-> i, moisture |-> 0, arg |-> NoArg, color |-> DefaultColor]
             ELSE [elevation |-> i, moisture |-> j, arg |-> normalized_elevation,
                   color |-> GradientToRgb(ranges[i].moisture_gradients[j].get_color,
                                           normalized_elevation)]
    ELSE ElevationLoop(ranges, elevation, moisture, i + 1,
                       RatAdd(cumulative_elevation, ranges[i].elevation))

\* ColorEvaluator::evaluate
Evaluate(elevation, moisture) ==
    /\ cpc = "built"
    /\ \E r \in {ElevationLoop(elevation_ranges, elevation, moisture, 1, Zero)} :
           /\ sel' = [elevation |-> r.elevation, moisture |-> r.moisture]
           /\ gradient_arg' = r.arg
           /\ final_color' = r.color
    /\ call' = [elevation |-> elevation, moisture |-> moisture]
    /\ cpc' = "evaluated"
    /\ UNCHANGED <<biomes, elevation_ranges>>
    /\ UNCHANGED <<mapVars, extVars>>

\* The caller takes the returned colour; the evaluator is ready for the next call.
EvaluateReturn ==
    /\ cpc = "evaluated"
    /\ cpc' = "built"
    /\ call' = <<>>
    /\ sel' = <<>>
    /\ gradient_arg' = <<>>
    /\ final_color' = <<>>
    /\ UNCHANGED <<biomes, elevation_ranges>>
    /\ UNCHANGED <<mapVars, extVars>>

\* A configuration has been loaded; no evaluator is built yet.
ColorInit ==
    /\ cpc = "config"
    /\ biomes \in Configs
    /\ elevation_ranges = <<>>
    /\ call = <<>>
    /\ sel = <<>>
    /\ gradient_arg = <<>>
    /\ final_color = <<>>

InitColor == MapInit /\ ColorInit /\ ExtIdle

NextColor ==
    \/ FromBiomes
    \/ \E elevation \in Samples, moisture \in Samples : Evaluate(elevation, moisture)
    \/ EvaluateReturn

SpecColor == InitColor /\ [][NextColor]_vars

(***************************************************************************)
(* Properties of the grid engine, checked under Spec.                       *)
(***************************************************************************)

\* The cells of a sequence are not all equal.
NonUniform(cells) == \E i, j \in DOMAIN cells : cells[i] # cells[j]

\* C1: and_then_with_coordinates returns a grid of the same width and height
\* whose cell at row-major index y*w+x is f(input[y*w+x], x, y), whatever the
\* order in which the workers ran the per-cell calls.
C1_CoordsMapsByCoordinate ==
    (pc = "idle" /\ kind = "coords") =>
        /\ map.width = input.width
        /\ map.height = input.height
        /\ Len(map.inner) = input.width * input.height
        /\ \A x \in 0..(input.width - 1), y \in 0..(input.height - 1) :
              map.inner[y * input.width + x + 1]
                  = ApplyXY(fn, input.inner[y * input.width + x + 1], x, y)

\* C1 witness: a 3x2 grid with differing cells went through a cell-dependent f,
\* and some worker finished a cell before an earlier cell was done.
C1_Witness ==
    /\ pc = "idle"
    /\ kind = "coords"
    /\ fn = "offset"
    /\ outOfOrder
    /\ input.width = 3
    /\ input.height = 2
    /\ NonUniform(input.inner)

\* C2: and_then returns a grid of the same width and height whose cell at each
\* index i is f(input[i]), whatever the order in which the workers finished.
C2_AndThenMapsByIndex ==
    (pc = "idle" /\ kind = "and_then") =>
        /\ map.width = input.width
        /\ map.height = input.height
        /\ Len(map.inner) = Len(input.inner)
        /\ \A i \in 1..Len(input.inner) : map.inner[i] = ApplyF(fn, input.inner[i])

\* C2 witness: a grid with differing cells was mapped, the workers finishing out
\* of index order.
C2_Witness ==
    /\ pc = "idle"
    /\ kind = "and_then"
    /\ outOfOrder
    /\ Len(input.inner) = 6
    /\ NonUniform(input.inner)
    /\ NonUniform(map.inner)

\* C3: return_single(v, w, h) with w > 0 and h > 0 yields a grid reporting
\* width w and height h with exactly w*h cells, every one equal to v.
C3_ReturnSingleFills ==
    (pc = "idle" /\ kind = "return_single" /\ args.width > 0 /\ args.height > 0) =>
        /\ map.width = args.width
        /\ map.height = args.height
        /\ Len(map.inner) = args.width * args.height
        /\ \A i \in 1..Len(map.inner) : map.inner[i] = args.value

\* C3 witness: return_single(1, 3, 2) has returned.
C3_Witness ==
    /\ pc = "idle"
    /\ kind = "return_single"
    /\ args = [value |-> 1, width |-> 3, height |-> 2]
    /\ Len(map.inner) = 6

\* The cell the operation that built the grid produced for coordinate (x, y).
Produced(x, y) ==
    CASE kind = "return_single" -> args.value
      [] kind = "and_then" -> ApplyF(fn, input.inner[y * args.width + x + 1])
      [] kind = "coords" -> ApplyXY(fn, input.inner[y * args.width + x + 1], x, y)

\* C4: extract calls the sink exactly once, with the grid's width and height and
\* with exactly width*height elements in row-major order: the element at index
\* y*width+x is the cell the last operation produced for (x, y).
C4_ExtractCallsSinkOnce ==
    /\ pc # "extracted" => sinkCalls = <<>>
    /\ pc = "extracted" =>
        /\ Len(sinkCalls) = 1
        /\ sinkCalls[1].width = args.width
        /\ sinkCalls[1].height = args.height
        /\ Len(sinkCalls[1].values) = args.width * args.height
        /\ \A x \in 0..(args.width - 1), y \in 0..(args.height - 1) :
              sinkCalls[1].values[y * args.width + x + 1] = Produced(x, y)

\* C4 witness: a 3x2 grid built by a coordinate transform has been extracted.
C4_Witness ==
    /\ pc = "extracted"
    /\ kind = "coords"
    /\ fn = "index"
    /\ Len(sinkCalls) = 1
    /\ sinkCalls[1].width = 3
    /\ sinkCalls[1].height = 2

\* C5: in every state of a chain, while the grid exists its cell sequence has
\* width*height elements and its width and height are those passed to
\* return_single.
C5_GridShapeInvariant ==
    (pc \in {"idle", "and_then", "coords"}) =>
        /\ Len(map.inner) = map.width * map.height
        /\ map.width = args.width
        /\ map.height = args.height

\* C5 witness: the second transform of a chain on a 3x2 grid is half done.
C5_Witness ==
    /\ pc = "coords"
    /\ steps = 1
    /\ map.width = 3
    /\ map.height = 2
    /\ Cardinality(DOMAIN results) = 3

(***************************************************************************)
(* Properties of the colour evaluator, checked under SpecColor.             *)
(***************************************************************************)

\* The moisture gradients of the elevation range the last call selected.
SelectedGradients == elevation_ranges[sel.elevation].moisture_gradients

\* C6: evaluate selects the first elevation band, in declared order, with
\* elevation <= threshold, and inside it the first moisture band with
\* moisture <= threshold; a value equal to a band's threshold is assigned to
\* that band, the lower of the two bands meeting there.
C6_FirstMatchingBand ==
    cpc = "evaluated" =>
        LET matching == {i \in 1..Len(elevation_ranges) :
                            RatLeq(call.elevation, elevation_ranges[i].elevation)}
        IN  /\ matching = {} => sel.elevation = 0
            /\ matching # {} =>
                  /\ sel.elevation \in matching
                  /\ \A i \in matching : sel.elevation <= i
            /\ \A i \in 1..Len(elevation_ranges) :
                  call.elevation = elevation_ranges[i].elevation => sel.elevation = i
            /\ sel.elevation = 0 => sel.moisture = 0
            /\ sel.elevation # 0 =>
                  LET inside == {j \in 1..Len(SelectedGradients) :
                                    RatLeq(call.moisture, SelectedGradients[j].moisture)}
                  IN  /\ inside = {} => sel.moisture = 0
                      /\ inside # {} =>
                            /\ sel.moisture \in inside
                            /\ \A j \in inside : sel.moisture <= j
                      /\ \A j \in 1..Len(SelectedGradients) :
                            call.moisture = SelectedGradients[j].moisture => sel.moisture = j

\* C6 witness: elevation and moisture both lie exactly on the boundary between
\* the first and the second band, and the first band was selected for both.
C6_Witness ==
    /\ cpc = "evaluated"
    /\ Len(elevation_ranges) = 2
    /\ Len(elevation_ranges[1].moisture_gradients) = 2
    /\ call.elevation = elevation_ranges[1].elevation
    /\ call.moisture = elevation_ranges[1].moisture_gradients[1].moisture
    /\ sel = [elevation |-> 1, moisture |-> 1]

\* C7: when elevation exceeds every elevation band's threshold the last
\* elevation band is used, when moisture exceeds every moisture threshold of
\* the selected elevation band its last moisture band is used, and so the
\* returned colour always comes from a gradient, never from the default.
C7_FallsBackToLastBand ==
    cpc = "evaluated" =>
        /\ (\A i \in 1..Len(elevation_ranges) :
                RatLt(elevation_ranges[i].elevation, call.elevation))
              => sel.elevation = Len(elevation_ranges)
        /\ sel.elevation # 0
        /\ (\A j \in 1..Len(SelectedGradients) :
                RatLt(SelectedGradients[j].moisture, call.moisture))
              => sel.moisture = Len(SelectedGradients)
        /\ sel.moisture # 0
        /\ final_color = GradientToRgb(SelectedGradients[sel.moisture].get_color, gradient_arg)

\* The cumulative threshold of the band before the selected elevation band.
PrecedingThreshold ==
    IF sel.elevation = 1 THEN Zero ELSE elevation_ranges[sel.elevation - 1].elevation

\* C8: with T the selected elevation band's cumulative threshold and P the
\* preceding band's (0 for the first band), the parameter passed to the
\* gradient is (elevation - P) / (T - P): within [0,1] for elevation in (P, T]
\* and 1 at elevation = T.
C8_NormalizesWithinBand ==
    (cpc = "evaluated" /\ sel.moisture # 0) =>
        LET T == elevation_ranges[sel.elevation].elevation
            P == PrecedingThreshold
        IN  /\ gradient_arg = RatDiv(RatSub(call.elevation, P), RatSub(T, P))
            /\ (RatLt(P, call.elevation) /\ RatLeq(call.elevation, T)) =>
                  (RatLeq(Zero, gradient_arg) /\ RatLeq(gradient_arg, One))
            /\ call.elevation = T => gradient_arg = One

RECURSIVE WeightSum(_, _)
\* The sum of the first k weights of a list.
WeightSum(weights, k) == IF k = 0 THEN 0 ELSE weights[k] + WeightSum(weights, k - 1)

\* The configured elevation weights, and the moisture weights of level i.
ElevationWeights == [i \in 1..Len(biomes) |-> biomes[i].elevation]
MoistureWeights(i) ==
    [j \in 1..Len(biomes[i].moisture_levels) |-> biomes[i].moisture_levels[j].moisture]

\* thresholds[k] = (sum of the first k weights) / (sum of all weights) for every
\* k; the thresholds increase strictly, lie in (0,1] and end at 1.
CumulativeThresholds(thresholds, weights) ==
    LET n == Len(weights)
    IN  /\ Len(thresholds) = n
        /\ \A k \in 1..n :
              /\ thresholds[k].den > 0
              /\ thresholds[k].num * WeightSum(weights, n)
                    = WeightSum(weights, k) * thresholds[k].den
              /\ RatLt(Zero, thresholds[k])
              /\ RatLeq(thresholds[k], One)
        /\ \A k \in 1..(n - 1) : RatLt(thresholds[k], thresholds[k + 1])
        /\ thresholds[n] = One

\* C9: from_biomes gives the k-th elevation band the threshold (sum of the
\* first k elevation weights) / (sum of all elevation weights), and likewise
\* each moisture band within its level; with all weights > 0 the thresholds
\* increase strictly, lie in (0,1] and end at 1; bands are as many as, and in
\* the order of, the configured levels.
C9_CumulativeThresholds ==
    cpc # "config" =>
        /\ CumulativeThresholds([i \in 1..Len(elevation_ranges) |-> elevation_ranges[i].elevation],
                                ElevationWeights)
        /\ \A i \in 1..Len(biomes) :
              /\ CumulativeThresholds(
                     [j \in 1..Len(elevation_ranges[i].moisture_gradients) |->
                         elevation_ranges[i].moisture_gradients[j].moisture],
                     MoistureWeights(i))
              /\ \A j \in 1..Len(biomes[i].moisture_levels) :
                    elevation_ranges[i].moisture_gradients[j].get_color
                        = biomes[i].moisture_levels[j].gradient

\* C9 witness: an evaluator built from elevation weights 1, 2 whose first level
\* has moisture weights 2, 1.
C9_Witness ==
    /\ cpc = "built"
    /\ ElevationWeights = <<1, 2>>
    /\ MoistureWeights(1) = <<2, 1>>
    /\ elevation_ranges[1].elevation = [num |-> 1, den |-> 3]
    /\ elevation_ranges[1].moisture_gradients[1].moisture = [num |-> 2, den |-> 3]

\* round(v) of a value v >= 0, clamped to [0, 255].
RoundClamp(v) ==
    LET r == (2 * v.num + v.den) \div (2 * v.den)
    IN  IF r < 0 THEN 0 ELSE IF r > 255 THEN 255 ELSE r

\* C10: the returned colour is round(channel * 255), clamped to [0,255], of the
\* interpolated gradient colour; one elevation band with one moisture band and
\* gradient [black, white] gives evaluate(0.5, 0.0) = RGB(128,128,128).
C10_RoundsChannels ==
    (cpc = "evaluated" /\ sel.moisture # 0) =>
        LET colors == SelectedGradients[sel.moisture].get_color
            color == GradientAt(colors, gradient_arg)
        IN  /\ \A k \in 1..3 : final_color[k] = RoundClamp(RatMul(color[k], Rat(255, 1)))
            /\ ( /\ Len(elevation_ranges) = 1
                 /\ Len(elevation_ranges[1].moisture_gradients) = 1
                 /\ colors = <<Black, White>>
                 /\ call = [elevation |-> Rat(1, 2), moisture |-> Zero] )
                   => final_color = <<128, 128, 128>>

(***************************************************************************)
(* utils::normalize: src/src/lib/utils.rs                                   *)
(***************************************************************************)
NormRange == 2

\* The values normalize is called with: -R/2, .., -1/2, 0, 1/2, .., R/2.
NormValues == {Rat(k, 2) : k \in (-NormRange)..NormRange}

\* A caller fixes the range [min, max]; nothing is normalized yet.
NormInit ==
    /\ \E min \in NormValues, max \in NormValues :
           norm = [min |-> min, max |-> max, results |-> <<>>]

\* One call normalize(value, norm.min, norm.max); its result is recorded.
NormalizeCall(value) ==
    /\ norm # <<>>
    /\ value \notin DOMAIN norm.results
    /\ norm' = [norm EXCEPT
                   !.results = (value :> Normalize(value, norm.min, norm.max)) @@ @]
    /\ UNCHANGED <<mapVars, colorVars, configVars, noiseVars, mainVars, sampleVars, lockVars>>

InitNormalize == MapInit /\ ColorIdle /\ NormInit /\ ConfigIdle /\ NoiseIdle /\ MainIdle
    /\ SampleIdle /\ LockIdle

NextNormalize == \E value \in NormValues : NormalizeCall(value)

SpecNormalize == InitNormalize /\ [][NextNormalize]_vars

(***************************************************************************)
(* Properties of normalize, checked under SpecNormalize.                    *)
(***************************************************************************)

\* C15: for max # min, normalize(v, min, max) is the linear map
\* (v - min) / (max - min): it takes min to 0 and max to 1, and for max > min
\* it is strictly increasing in v.
C15_NormalizeIsLinear ==
    (norm # <<>> /\ norm.max # norm.min) =>
        /\ \A v \in DOMAIN norm.results :
              /\ IsFinite(norm.results[v])
              /\ RatMul(norm.results[v], RatSub(norm.max, norm.min))
                     = RatSub(v, norm.min)
              /\ (v = norm.min) => norm.results[v] = Zero
              /\ (v = norm.max) => norm.results[v] = One
        /\ RatLt(norm.min, norm.max) =>
              \A u, v \in DOMAIN norm.results :
                  RatLt(u, v) => RatLt(norm.results[u], norm.results[v])

\* C15 witness: with min < max, normalize was called at min, at max, strictly
\* inside the range and above it.
C15_Witness ==
    /\ norm # <<>>
    /\ RatLt(norm.min, norm.max)
    /\ norm.min # Zero
    /\ norm.min \in DOMAIN norm.results
    /\ norm.max \in DOMAIN norm.results
    /\ \E u, v \in DOMAIN norm.results :
           /\ RatLt(norm.min, u)
           /\ RatLt(u, norm.max)
           /\ RatLt(norm.max, v)

(***************************************************************************)
(* Configuration: src/src/lib/config.rs                                     *)
(***************************************************************************)
MaxDefects == 2

\* A colour string is the sequence of its characters.
HexDigits ==
    ("0" :> 0) @@ ("1" :> 1) @@ ("2" :> 2) @@ ("3" :> 3) @@ ("4" :> 4) @@
    ("5" :> 5) @@ ("6" :> 6) @@ ("7" :> 7) @@ ("8" :> 8) @@ ("9" :> 9) @@
    ("a" :> 10) @@ ("b" :> 11) @@ ("c" :> 12) @@ ("d" :> 13) @@ ("e" :> 14) @@
    ("f" :> 15)

\* Color::from_html of a "#rrggbb" string: the channels in units of 1/255; any
\* other string of the model is rejected.
FromHtml(s) ==
    IF Len(s) = 7 /\ s[1] = "#" /\ \A i \in 2..7 : s[i] \in DOMAIN HexDigits
    THEN [ok |-> TRUE,
          color |-> [k \in 1..3 |->
                        16 * HexDigits[s[2 * k]] + HexDigits[s[2 * k + 1]]]]
    ELSE [ok |-> FALSE]

Html000000 == <<"#", "0", "0", "0", "0", "0", "0">>
Htmlffffff == <<"#", "f", "f", "f", "f", "f", "f">>
Html0a46ad == <<"#", "0", "a", "4", "6", "a", "d">>
Html35d6f2 == <<"#", "3", "5", "d", "6", "f", "2">>
Html3b3b3b == <<"#", "3", "b", "3", "b", "3", "b">>
Html6e6e6e == <<"#", "6", "e", "6", "e", "6", "e">>
\* A string that is no colour.
HtmlBad == <<"#", "z", "z">>

\* ConfigResult<()>: Ok(()) and the ConfigError values validate returns.
Ok == [kind |-> "Ok"]
Err(name) == [kind |-> name]
ErrFound(name, found) == [kind |-> name, found |-> found]

RECURSIVE ValidateColors(_, _)
\* for color in &self.gradient { Color::from_html(color).map_err(..)?; } from
\* colour i on
ValidateColors(gradient, i) ==
    IF i > Len(gradient) THEN Ok
    ELSE IF ~FromHtml(gradient[i]).ok THEN ErrFound("InvalidColor", gradient[i])
    ELSE ValidateColors(gradient, i + 1)

\* SimpleBiome::validate
SimpleBiomeValidate(simple_biome) ==
    IF simple_biome.gradient = <<>> THEN Err("MissingColors")
    ELSE ValidateColors(simple_biome.gradient, 1)

\* Noise::validate with `<` for `<=`: a zero persistence or lacunarity passes.
NoiseValidateStrict(noise) ==
    IF RatLt(noise.persistence, Zero)
    THEN ErrFound("InvalidPersistence", noise.persistence)
    ELSE IF RatLt(noise.lacunarity, Zero)
    THEN ErrFound("InvalidLacunarity", noise.lacunarity)
    ELSE Ok

\* Noise::validate
NoiseValidate(noise) ==
    IF RatLeq(noise.persistence, Zero)
    THEN ErrFound("InvalidPersistence", noise.persistence)
    ELSE IF RatLeq(noise.lacunarity, Zero)
    THEN ErrFound("InvalidLacunarity", noise.lacunarity)
    ELSE Ok

\* MoistureLevel::validate
MoistureLevelValidate(moisture_level) ==
    IF moisture_level.moisture <= 0
    THEN ErrFound("InvalidMoisture", moisture_level.moisture)
    ELSE IF moisture_level.gradient = <<>> THEN Err("MissingColors")
    ELSE ValidateColors(moisture_level.gradient, 1)

RECURSIVE ValidateMoistureLevels(_, _)
\* for moisture_level in &self.moisture_levels { moisture_level.validate()?; }
\* from level j on
ValidateMoistureLevels(moisture_levels, j) ==
    IF j > Len(moisture_levels) THEN Ok
    ELSE IF MoistureLevelValidate(moisture_levels[j]) # Ok
    THEN MoistureLevelValidate(moisture_levels[j])
    ELSE ValidateMoistureLevels(moisture_levels, j + 1)

\* ElevationLevel::validate
ElevationLevelValidate(elevation_level) ==
    IF elevation_level.elevation <= 0
    THEN ErrFound("InvalidElevation", elevation_level.elevation)
    ELSE IF elevation_level.moisture_levels = <<>> THEN Err("MissingMoistureLevels")
    ELSE ValidateMoistureLevels(elevation_level.moisture_levels, 1)

RECURSIVE ValidateElevationLevels(_, _)
\* for elevation_level in &self.elevation_levels { elevation_level.validate()?; }
\* from level i on
ValidateElevationLevels(elevation_levels, i) ==
    IF i > Len(elevation_levels) THEN Ok
    ELSE IF ElevationLevelValidate(elevation_levels[i]) # Ok
    THEN ElevationLevelValidate(elevation_levels[i])
    ELSE ValidateElevationLevels(elevation_levels, i + 1)

\* Biomes::validate
BiomesValidate(biome) ==
    IF biome.elevation_levels = <<>> THEN Err("MissingElevationLevels")
    ELSE ValidateElevationLevels(biome.elevation_levels, 1)

\* Config::validate: the results it can return.  Each loop runs over a HashMap,
\* whose iteration order is unspecified, and stops at the first entry that
\* fails: any failing entry of the first map that has one can be that entry.
ValidateResults(c) ==
    LET biome_errors ==
            {SimpleBiomeValidate(c.biomes[k]) : k \in DOMAIN c.biomes} \ {Ok}
        noise_errors ==
            {NoiseValidate(c.noise_generators[k]) : k \in DOMAIN c.noise_generators}
                \ {Ok}
        map_errors ==
            {BiomesValidate(c.biome_maps[k]) : k \in DOMAIN c.biome_maps} \ {Ok}
    IN  IF biome_errors # {} THEN biome_errors
        ELSE IF noise_errors # {} THEN noise_errors
        ELSE IF map_errors # {} THEN map_errors
        ELSE {Ok}

\* A configuration that passes validation: two single biomes, the two noise
\* generators and the biome map the command line tool asks for.
BaseConfig ==
    [biomes |->
        ("ocean" :> [gradient |-> <<Html0a46ad, Html35d6f2>>]) @@
        ("scorched" :> [gradient |-> <<Html3b3b3b, Html6e6e6e, Htmlffffff>>]),
     noise_generators |->
        ("elevation_noise" :>
            [octaves |-> 2, persistence |-> Rat(2, 1), lacunarity |-> Rat(3, 1)]) @@
        ("moisture_noise" :>
            [octaves |-> 1, persistence |-> Rat(3, 1), lacunarity |-> Rat(7, 1)]),
     biome_maps |->
        ("default" :>
            [elevation_levels |->
                <<[elevation |-> 1,
                   moisture_levels |->
                       <<[moisture |-> 1, gradient |-> <<Html000000, Htmlffffff>>],
                         [moisture |-> 2, gradient |-> <<Html0a46ad, Html35d6f2>>]>>],
                  [elevation |-> 2,
                   moisture_levels |->
                       <<[moisture |-> 1,
                          gradient |-> <<Html3b3b3b, Html6e6e6e, Htmlffffff>>]>>]>>])]

\* A function without the entry for key k.
Without(f, k) == [j \in DOMAIN f \ {k} |-> f[j]]

\* The ways a configuration file departs from BaseConfig, in the order they are
\* applied: edits of single fields first, emptied lists and removed entries last.
Defects ==
    <<"persistence_zero", "persistence_negative", "lacunarity_zero",
      "lacunarity_negative", "elevation_zero", "elevation_negative",
      "moisture_zero", "moisture_negative", "biome_bad_color", "level_bad_color",
      "biome_no_colors", "level_no_colors", "no_moisture_levels",
      "no_elevation_levels", "no_scorched", "no_ocean", "no_elevation_noise",
      "no_moisture_noise", "no_default">>

\* The configuration c with defect d.
WithDefect(c, d) ==
    CASE d = "persistence_zero" ->
            [c EXCEPT !.noise_generators["moisture_noise"].persistence = Zero]
      [] d = "persistence_negative" ->
            [c EXCEPT !.noise_generators["elevation_noise"].persistence = Rat(-1, 2)]
      [] d = "lacunarity_zero" ->
            [c EXCEPT !.noise_generators["moisture_noise"].lacunarity = Zero]
      [] d = "lacunarity_negative" ->
            [c EXCEPT !.noise_generators["elevation_noise"].lacunarity = Rat(-3, 1)]
      [] d = "elevation_zero" ->
            [c EXCEPT !.biome_maps["default"].elevation_levels[1].elevation = 0]
      [] d = "elevation_negative" ->
            [c EXCEPT !.biome_maps["default"].elevation_levels[2].elevation = -1]
      [] d = "moisture_zero" ->
            [c EXCEPT !.biome_maps["default"].elevation_levels[2]
                          .moisture_levels[1].moisture = 0]
      [] d = "moisture_negative" ->
            [c EXCEPT !.biome_maps["default"].elevation_levels[1]
                          .moisture_levels[2].moisture = -2]
      [] d = "biome_bad_color" ->
            [c EXCEPT !.biomes["ocean"].gradient[2] = HtmlBad]
      [] d = "level_bad_color" ->
            [c EXCEPT !.biome_maps["default"].elevation_levels[1]
                          .moisture_levels[1].gradient[2] = HtmlBad]
      [] d = "biome_no_colors" ->
            [c EXCEPT !.biomes["scorched"].gradient = <<>>]
      [] d = "level_no_colors" ->
            [c EXCEPT !.biome_maps["default"].elevation_levels[2]
                          .moisture_levels[1].gradient = <<>>]
      [] d = "no_moisture_levels" ->
            [c EXCEPT !.biome_maps["default"].elevation_levels[1]
                          .moisture_levels = <<>>]
      [] d = "no_elevation_levels" ->
            [c EXCEPT !.biome_maps["default"].elevation_levels = <<>>]
      [] d = "no_scorched" ->
            [c EXCEPT !.biomes = Without(@, "scorched")]
      [] d = "no_ocean" ->
            [c EXCEPT !.biomes = Without(@, "ocean")]
      [] d = "no_elevation_noise" ->
            [c EXCEPT !.noise_generators = Without(@, "elevation_noise")]
      [] d = "no_moisture_noise" ->
            [c EXCEPT !.noise_generators = Without(@, "moisture_noise")]
      [] d = "no_default" ->
            [c EXCEPT !.biome_maps = Without(@, "default")]

RECURSIVE WithDefects(_, _, _)
\* The configuration c with the defects of the set ds from Defects[i] on.
WithDefects(c, ds, i) ==
    IF i > Len(Defects) THEN c
    ELSE IF Defects[i] \in ds THEN WithDefects(WithDefect(c, Defects[i]), ds, i + 1)
    ELSE WithDefects(c, ds, i + 1)

\* Sets of at most MaxDefects defects.
DefectSets ==
    {ds \in SUBSET {Defects[i] : i \in DOMAIN Defects} : Cardinality(ds) <= MaxDefects}

\* The configuration files the model loads.
ConfigFiles == {WithDefects(BaseConfig, ds, 1) : ds \in DefectSets}

\* A configuration has been loaded (Config::from_file parses, it does not
\* validate); validate has not been called.
ConfigInit ==
    /\ config \in ConfigFiles
    /\ verdict = <<>>

\* config.validate()
Validate ==
    /\ config # <<>>
    /\ verdict = <<>>
    /\ verdict' \in ValidateResults(config)
    /\ UNCHANGED config
    /\ UNCHANGED <<mapVars, colorVars, normVars, noiseVars, mainVars, sampleVars, lockVars>>

InitConfig == MapInit /\ ColorIdle /\ NormIdle /\ ConfigInit /\ NoiseIdle /\ MainIdle
    /\ SampleIdle /\ LockIdle

NextConfig == Validate

SpecConfig == InitConfig /\ [][NextConfig]_vars

(***************************************************************************)
(* Properties of validation, checked under SpecConfig.                      *)
(***************************************************************************)

\* The moisture levels of every elevation level of every biome map of c.
AllElevationLevels(c) ==
    UNION {{c.biome_maps[k].elevation_levels[i] :
               i \in DOMAIN c.biome_maps[k].elevation_levels} :
           k \in DOMAIN c.biome_maps}

AllMoistureLevels(c) ==
    UNION {{e.moisture_levels[j] : j \in DOMAIN e.moisture_levels} :
           e \in AllElevationLevels(c)}

\* Every gradient (list of colour strings) of c.
AllGradients(c) ==
    {c.biomes[k].gradient : k \in DOMAIN c.biomes}
        \cup {m.gradient : m \in AllMoistureLevels(c)}

\* The invalid cases that occur in configuration c, by the name of their error.
InvalidCases(c) ==
    {case \in {"InvalidPersistence", "InvalidLacunarity", "InvalidElevation",
               "InvalidMoisture", "MissingColors", "InvalidColor",
               "MissingElevationLevels", "MissingMoistureLevels"} :
        CASE case = "InvalidPersistence" ->
                \E k \in DOMAIN c.noise_generators :
                    ~RatLt(Zero, c.noise_generators[k].persistence)
          [] case = "InvalidLacunarity" ->
                \E k \in DOMAIN c.noise_generators :
                    ~RatLt(Zero, c.noise_generators[k].lacunarity)
          [] case = "InvalidElevation" ->
                \E e \in AllElevationLevels(c) : ~(e.elevation > 0)
          [] case = "InvalidMoisture" ->
                \E m \in AllMoistureLevels(c) : ~(m.moisture > 0)
          [] case = "MissingColors" ->
                <<>> \in AllGradients(c)
          [] case = "InvalidColor" ->
                \E g \in AllGradients(c) : \E i \in DOMAIN g : ~FromHtml(g[i]).ok
          [] case = "MissingElevationLevels" ->
                \E k \in DOMAIN c.biome_maps : c.biome_maps[k].elevation_levels = <<>>
          [] case = "MissingMoistureLevels" ->
                \E e \in AllElevationLevels(c) : e.moisture_levels = <<>>}

\* C11: Config::validate returns the error named after the invalid case when
\* exactly one kind of invalid case occurs in the configuration, and Ok when
\* none occurs.
C11_ValidateNamesTheCase ==
    (config # <<>> /\ verdict # <<>>) =>
        /\ (InvalidCases(config) = {}) => verdict = Ok
        /\ \A case \in InvalidCases(config) :
              (InvalidCases(config) = {case}) => verdict.kind = case

\* C11 witness: a configuration whose only invalid case is a persistence of
\* exactly zero has been validated.
C11_Witness ==
    /\ config # <<>>
    /\ verdict # <<>>
    /\ InvalidCases(config) = {"InvalidPersistence"}
    /\ \E k \in DOMAIN config.noise_generators :
           config.noise_generators[k].persistence = Zero

(***************************************************************************)
(* Noise field: src/src/noise.rs                                            *)
(***************************************************************************)
MaxOctaves == 2
MaxCalls == 2

\* Simplex::new(2): the seed of the noise primitive.
Seed == 2

\* The noise primitive, seeded.
SimplexNew(seed) == [seed |-> seed]

\* A point [frequency * circle_x, frequency * scale_y, frequency * circle_z]
\* is held in cylindrical form: the circle's radius, the angle in turns and y.
\* Simplex::get of the noise crate: a fixed function of the seed and the point
\* with values in [-1, 1]; a non-finite coordinate gives no finite sample.
SimplexGet(noise, point) ==
    IF ~IsFinite(point.radius) \/ ~IsFinite(point.y) THEN NaN
    ELSE Rat(((noise.seed * 22 + Abs(point.radius.num) * 18 + point.radius.den * 20
                 + point.angle.num + point.angle.den * 13
                 + Abs(point.y.num) * 17 + point.y.den * 5) % 9) - 4, 4)

RECURSIVE PowF(_, _)
\* f64::powf(base, n as f64) for a whole number n
PowF(base, n) == IF n = 0 THEN One ELSE RatMul(base, PowF(base, n - 1))

\* amplitude *= persistence
NextAmplitudeTimes(amplitude, persistence) == RatMul(amplitude, persistence)

\* amplitude /= persistence
NextAmplitude(amplitude, persistence) == RatDiv(amplitude, persistence)

RECURSIVE OctaveTables(_, _, _, _, _)
\* SimplexNoiseGenerator::new: the loop `for octave in 0..octaves` from `octave`
\* on, with the running amplitude.
OctaveTables(octave, octaves, amplitude, persistence, lacunarity) ==
    IF octave >= octaves THEN [frequencies |-> <<>>, amplitudes |-> <<>>]
    ELSE LET rest == OctaveTables(octave + 1, octaves,
                                  NextAmplitude(amplitude, persistence),
                                  persistence, lacunarity)
         IN  [frequencies |-> <<PowF(lacunarity, octave)>> \o rest.frequencies,
              amplitudes |-> <<amplitude>> \o rest.amplitudes]

\* SimplexNoiseGenerator::new: circle_coords.  Entry x stands for the pair
\* (cos(angle) / aspect_ratio, sin(angle) / aspect_ratio) with the angle
\* x / width of a full turn.
CircleCoords(width, aspect_ratio) ==
    [i \in 1..width |-> [angle |-> Rat(i - 1, width), aspect |-> aspect_ratio]]

\* SimplexNoiseGenerator::new
SimplexNoiseGeneratorNew(width, height, octaves, persistence, lacunarity) ==
    LET tables == OctaveTables(0, octaves, One, persistence, lacunarity)
    IN  [height |-> height,
         octaves |-> octaves,
         frequencies |-> tables.frequencies,
         amplitudes |-> tables.amplitudes,
         circle_coords |-> CircleCoords(width, Rat(width, height)),
         noise |-> SimplexNew(Seed)]

RECURSIVE OctaveSum(_, _, _, _, _)
\* generate: the loop `for octave in 0..self.octaves` from `octave` on, with the
\* running elevation.
OctaveSum(field, coords, scale_y, octave, elevation) ==
    IF octave >= field.octaves THEN elevation
    ELSE LET frequency == field.frequencies[octave + 1]
             amplitude == field.amplitudes[octave + 1]
             noise == SimplexGet(field.noise,
                          [radius |-> RatDiv(frequency, coords.aspect),
                           angle |-> coords.angle,
                           y |-> RatMul(frequency, scale_y)])
         IN  OctaveSum(field, coords, scale_y, octave + 1,
                       RatAdd(elevation, RatMul(amplitude, noise)))

\* generate with a result that drifts with the number of calls made so far.
GenerateAtDrifting(field, x, y) ==
    LET elevation == OctaveSum(field, field.circle_coords[x + 1],
                               Rat(y, field.height), 0,
                               Rat(Len(samples[1]) + Len(samples[2]), 1))
    IN  RatMul(elevation, elevation)

\* SimplexNoiseGenerator::generate(x, y), for x < width
GenerateAt(field, x, y) ==
    LET elevation == OctaveSum(field, field.circle_coords[x + 1],
                               Rat(y, field.height), 0, Zero)
    IN  RatMul(elevation, elevation)

\* The two runs that build a field from the same arguments.
Runs == {1, 2}

\* The width and height the fields are built for.
NoiseDims == {<<2, 1>>, <<1, 2>>, <<2, 2>>}

\* The persistence and lacunarity the fields are built with.
NoiseTunings == {<<Rat(2, 1), Rat(3, 1)>>, <<Rat(3, 1), Rat(7, 1)>>,
                 <<Rat(1, 2), Rat(3, 2)>>}

\* The arguments of the builder are fixed; no field is built yet.
NoiseInit ==
    /\ \E d \in NoiseDims, o \in 0..MaxOctaves, t \in NoiseTunings :
           settings = [width |-> d[1], height |-> d[2], octaves |-> o,
                       persistence |-> t[1], lacunarity |-> t[2]]
    /\ fields = [r \in Runs |-> <<>>]
    /\ samples = [r \in Runs |-> <<>>]

\* SimplexNoiseGeneratorBuilder::build in run r
New(r) ==
    /\ settings # <<>>
    /\ fields[r] = <<>>
    /\ fields' = [fields EXCEPT ![r] =
                     SimplexNoiseGeneratorNew(settings.width, settings.height,
                                              settings.octaves, settings.persistence,
                                              settings.lacunarity)]
    /\ UNCHANGED <<settings, samples>>
    /\ UNCHANGED <<mapVars, colorVars, normVars, configVars, mainVars, sampleVars, lockVars>>

\* One generate(x, y) call on the field of run r, from any worker.
Generate(r, x, y) ==
    /\ settings # <<>>
    /\ fields[r] # <<>>
    /\ Len(samples[r]) < MaxCalls
    /\ x < settings.width
    /\ y < settings.height
    /\ samples' = [samples EXCEPT ![r] =
                      Append(@, [x |-> x, y |-> y,
                                 value |-> GenerateAt(fields[r], x, y)])]
    /\ UNCHANGED <<settings, fields>>
    /\ UNCHANGED <<mapVars, colorVars, normVars, configVars, mainVars, sampleVars, lockVars>>

InitNoise == MapInit /\ ColorIdle /\ NormIdle /\ ConfigIdle /\ NoiseInit /\ MainIdle
    /\ SampleIdle /\ LockIdle

NextNoise ==
    \/ \E r \in Runs : New(r)
    \/ \E r \in Runs, x \in 0..MaxWidth, y \in 0..MaxHeight : Generate(r, x, y)

SpecNoise == InitNoise /\ [][NextNoise]_vars

(***************************************************************************)
(* Properties of the noise field, checked under SpecNoise.                  *)
(***************************************************************************)

\* C16: a built field has exactly `octaves` frequencies and amplitudes and
\* exactly `width` circle coordinates; frequencies[o] = lacunarity^o,
\* amplitudes[0] = 1 and amplitudes[o + 1] = amplitudes[o] / persistence.
C16_TablesOfConstruction ==
    \A r \in DOMAIN fields :
        (fields[r] # <<>>) =>
            /\ Len(fields[r].frequencies) = settings.octaves
            /\ Len(fields[r].amplitudes) = settings.octaves
            /\ Len(fields[r].circle_coords) = settings.width
            /\ \A o \in 0..(settings.octaves - 1) :
                  fields[r].frequencies[o + 1]
                      = Rat(settings.lacunarity.num ^ o, settings.lacunarity.den ^ o)
            /\ (settings.octaves > 0) => fields[r].amplitudes[1] = One
            /\ \A o \in 0..(settings.octaves - 2) :
                  /\ IsFinite(fields[r].amplitudes[o + 2])
                  /\ RatMul(fields[r].amplitudes[o + 2], settings.persistence)
                         = fields[r].amplitudes[o + 1]

\* C16 witness: a field of two or more octaves was built with a persistence
\* other than 1.
C16_Witness ==
    /\ settings # <<>>
    /\ settings.octaves >= 2
    /\ settings.persistence = Rat(3, 1)
    /\ settings.width = 2
    /\ fields[1] # <<>>

C19_ImageIsRowMajor ==
    (pc = "extracted") =>
        LET sink == sinkCalls[Len(sinkCalls)]
        IN  /\ image # ImagePanic
            /\ image.width = sink.width
            /\ image.height = sink.height
            /\ DOMAIN image.pixels
                   = (0..(sink.width - 1)) \X (0..(sink.height - 1))
            /\ \A x \in 0..(sink.width - 1), y \in 0..(sink.height - 1) :
                  image.pixels[<<x, y>>] = sink.values[y * sink.width + x + 1]

\* C19 witness: a 3x2 grid with differing cells was extracted into an image.
C19_Witness ==
    /\ pc = "extracted"
    /\ image # ImagePanic
    /\ image.width = 3
    /\ image.height = 2
    /\ NonUniform(sinkCalls[1].values)

(***************************************************************************)
(* Command line tool: src/src/cmd/main.rs, with the lookups of              *)
(* src/src/lib/config.rs.  Each statement of main is one step; the cells    *)
(* of a transform are computed within its step.                             *)
(***************************************************************************)

\* Option<T> and Result<T, E>: None (or Err) and Some(v) (or Ok(v)).
None == <<>>
Some(v) == <<v>>

\* color::get_color_func: the colours of the gradient the returned closure
\* samples, or Err(InvalidGradient).
GetColorFunc(gradient) ==
    IF \A i \in DOMAIN gradient : FromHtml(gradient[i]).ok
    THEN Some([i \in DOMAIN gradient |-> FromHtml(gradient[i]).color])
    ELSE None

\* The elevation levels with every gradient turned into its colour function.
WithColorFuncs(elevation_levels) ==
    [i \in DOMAIN elevation_levels |->
        [elevation |-> elevation_levels[i].elevation,
         moisture_levels |->
            [j \in DOMAIN elevation_levels[i].moisture_levels |->
                [moisture |-> elevation_levels[i].moisture_levels[j].moisture,
                 gradient |->
                    GetColorFunc(elevation_levels[i].moisture_levels[j].gradient)[1]]]]]

\* ColorEvaluator::from_biomes on a Biomes of the configuration file: the first
\* gradient that does not parse ends it with Err(InvalidGradient).
ColorEvaluatorFromBiomes(biome) ==
    IF \A i \in DOMAIN biome.elevation_levels :
          \A j \in DOMAIN biome.elevation_levels[i].moisture_levels :
              GetColorFunc(biome.elevation_levels[i].moisture_levels[j].gradient) # None
    THEN Some(ElevationRanges(WithColorFuncs(biome.elevation_levels),
                              TotalElevation(biome.elevation_levels), 1, 0))
    ELSE None

\* Config::get_noise_generator
GetNoiseGenerator(c, name, width, height) ==
    IF name \in DOMAIN c.noise_generators
    THEN Some(SimplexNoiseGeneratorNew(width, height,
                                       c.noise_generators[name].octaves,
                                       c.noise_generators[name].persistence,
                                       c.noise_generators[name].lacunarity))
    ELSE None

\* Config::get_color_evaluator
GetColorEvaluator(c, name) ==
    IF name \in DOMAIN c.biome_maps
    THEN ColorEvaluatorFromBiomes(c.biome_maps[name])
    ELSE None

\* Config::get_color_func with a black-to-white gradient for a missing biome.
ConfigGetColorFuncOrDefault(c, name) ==
    IF name \in DOMAIN c.biomes
    THEN GetColorFunc(c.biomes[name].gradient)
    ELSE Some(<<Black, White>>)

\* Config::get_color_func
ConfigGetColorFunc(c, name) ==
    IF name \in DOMAIN c.biomes
    THEN GetColorFunc(c.biomes[name].gradient)
    ELSE None

\* let sea_level = 0.05
SeaLevel == Rat(1, 20)

\* f64::MAX and f64::MIN, the seeds of the fold: finite values beyond every
\* sample of the model.
F64Max == Rat(1000000, 1)
F64Min == Rat(-1000000, 1)

\* f64::max that keeps its receiver.
FMaxKeep(a, b) == a

\* f64::min and f64::max: a NaN operand is ignored.
FMin(a, b) == IF IsNaN(a) THEN b ELSE IF IsNaN(b) THEN a ELSE IF RatLt(b, a) THEN b ELSE a
FMax(a, b) == IF IsNaN(a) THEN b ELSE IF IsNaN(b) THEN a ELSE IF RatLt(a, b) THEN b ELSE a

\* Cell { elevation: 0.0, moisture: 0.0 }
ZeroCell == [elevation |-> Zero, moisture |-> Zero]

\* |_, x, y| Cell { elevation: elevation_noise_generator.generate(x, y),
\*                  moisture: moisture_noise_generator.generate(x, y) }
SampleCell(elevation_noise_generator, moisture_noise_generator, x, y) ==
    [elevation |-> GenerateAt(elevation_noise_generator, x, y),
     moisture |-> GenerateAt(moisture_noise_generator, x, y)]

RECURSIVE FoldExtent(_, _, _)
\* map.iter().fold((f64::MAX, f64::MIN, f64::MAX, f64::MIN), ..) from cell i on
FoldExtent(cells, i, acc) ==
    IF i > Len(cells) THEN acc
    ELSE FoldExtent(cells, i + 1,
            [min_elevation |-> FMin(acc.min_elevation, cells[i].elevation),
             max_elevation |-> FMax(acc.max_elevation, cells[i].elevation),
             min_moisture |-> FMin(acc.min_moisture, cells[i].moisture),
             max_moisture |-> FMax(acc.max_moisture, cells[i].moisture)])

\* The closure of the normalizing and_then.
NormalizeCell(cell, extent) ==
    [elevation |-> Normalize(cell.elevation, extent.min_elevation, extent.max_elevation),
     moisture |-> Normalize(cell.moisture, extent.min_moisture, extent.max_moisture)]

\* The closure of the colouring and_then with the test left out: every cell
\* goes to the evaluator.
ColourCellByEvaluator(cell, ocean, evaluator) ==
    [ocean_calls |-> <<>>,
     evaluate_calls |-> <<cell>>,
     pixel |-> ElevationLoop(evaluator, cell.elevation, cell.moisture, 1, Zero).color]

\* The closure of the colouring and_then: the calls it makes to the ocean
\* gradient and to evaluator.evaluate, and the pixel it returns.
ColourCell(cell, ocean, evaluator) ==
    IF RatLt(cell.elevation, SeaLevel)
    THEN LET normalized_elevation == Normalize(cell.elevation, Zero, SeaLevel)
         IN  [ocean_calls |-> <<normalized_elevation>>,
              evaluate_calls |-> <<>>,
              pixel |-> GradientToRgb(ocean, normalized_elevation)]
    ELSE [ocean_calls |-> <<>>,
          evaluate_calls |-> <<cell>>,
          pixel |-> ElevationLoop(evaluator, cell.elevation, cell.moisture, 1, Zero).color]

\* The defects of the configuration files given to the tool.  An empty gradient
\* in the biome map is left out: what colorgrad builds from no colours is not
\* part of this repository.
MainDefects == {Defects[i] : i \in DOMAIN Defects} \ {"level_no_colors"}

\* The configuration files given to the tool: the valid one and those with
\* one defect.
MainConfigs ==
    {BaseConfig} \cup {WithDefects(BaseConfig, {d}, 1) : d \in MainDefects}

\* Args::parse and Config::from_file succeeded: the file is loaded (it is not
\* validated), nothing is assembled.
MainInit ==
    /\ \E c \in MainConfigs, width \in 0..MaxWidth, height \in 0..MaxHeight :
           main = [pc |-> "loaded",
                   config |-> c,
                   width |-> width,
                   height |-> height,
                   elevation_noise_generator |-> None,
                   moisture_noise_generator |-> None,
                   evaluator |-> None,
                   ocean |-> None,
                   map |-> None,
                   extent |-> None,
                   colouring |-> None,
                   image |-> None,
                   saved |-> None,
                   error |-> None]

\* `?` on a lookup that returned None: main returns the error.
Abort(message) == [main EXCEPT !.pc = "failed", !.error = Some(message)]

\* config.get_noise_generator("elevation_noise", args.width, args.height)
\*     .context(..)?
LookupElevationNoise ==
    /\ main # <<>>
    /\ main.pc = "loaded"
    /\ \E found \in {GetNoiseGenerator(main.config, "elevation_noise",
                                       main.width, main.height)} :
           main' = IF found = None
                   THEN Abort("noise generator for elevation_noise not defined in config file")
                   ELSE [main EXCEPT !.pc = "elevation_noise",
                                     !.elevation_noise_generator = found]
    /\ UNCHANGED <<mapVars, colorVars, normVars, configVars, noiseVars, sampleVars, lockVars>>

\* config.get_noise_generator("moisture_noise", args.width, args.height)
\*     .context(..)?
LookupMoistureNoise ==
    /\ main # <<>>
    /\ main.pc = "elevation_noise"
    /\ \E found \in {GetNoiseGenerator(main.config, "moisture_noise",
                                       main.width, main.height)} :
           main' = IF found = None
                   THEN Abort("noise generator for moisture_noise not defined in config file")
                   ELSE [main EXCEPT !.pc = "moisture_noise",
                                     !.moisture_noise_generator = found]
    /\ UNCHANGED <<mapVars, colorVars, normVars, configVars, noiseVars, sampleVars, lockVars>>

\* config.get_color_evaluator("default").context(..)?
LookupEvaluator ==
    /\ main # <<>>
    /\ main.pc = "moisture_noise"
    /\ \E found \in {GetColorEvaluator(main.config, "default")} :
           main' = IF found = None
                   THEN Abort("default color evaluator not defined in config file")
                   ELSE [main EXCEPT !.pc = "evaluator", !.evaluator = found]
    /\ UNCHANGED <<mapVars, colorVars, normVars, configVars, noiseVars, sampleVars, lockVars>>

\* config.get_color_func("ocean").context(..)?
LookupOcean ==
    /\ main # <<>>
    /\ main.pc = "evaluator"
    /\ \E found \in {ConfigGetColorFunc(main.config, "ocean")} :
           main' = IF found = None
                   THEN Abort("ocean gradient not defined in config file")
                   ELSE [main EXCEPT !.pc = "assembled", !.ocean = found]
    /\ UNCHANGED <<mapVars, colorVars, normVars, configVars, noiseVars, sampleVars, lockVars>>

\* Map::return_single(Cell { elevation: 0.0, moisture: 0.0 }, args.width,
\*     args.height)
CreateMap ==
    /\ main # <<>>
    /\ main.pc = "assembled"
    /\ main' = [main EXCEPT
                   !.pc = "created",
                   !.map = Some([width |-> main.width, height |-> main.height,
                                 inner |-> Fill(ZeroCell, main.width, main.height)])]
    /\ UNCHANGED <<mapVars, colorVars, normVars, configVars, noiseVars, sampleVars, lockVars>>

\* The sampling step with a generate that uses up the elevation field's
\* octave tables as it goes.
SampleNoiseConsuming ==
    /\ main # <<>>
    /\ main.pc = "created"
    /\ LET self == main.map[1]
           cells == [xy \in (0..(self.width - 1)) \X (0..(self.height - 1)) |->
                        SampleCell(main.elevation_noise_generator[1],
                                   main.moisture_noise_generator[1], xy[1], xy[2])]
       IN  main' = [main EXCEPT
                       !.pc = "sampled",
                       !.elevation_noise_generator =
                           Some([main.elevation_noise_generator[1] EXCEPT
                                    !.octaves = 0,
                                    !.frequencies = <<>>,
                                    !.amplitudes = <<>>]),
                       !.map = Some(NewMap(self, CollectRows(cells, self.width,
                                                             self.height)))]
    /\ UNCHANGED <<mapVars, colorVars, normVars, configVars, noiseVars, sampleVars, lockVars>>

\* map.and_then_with_coordinates(|_, x, y| Cell { .. generate(x, y) .. })
SampleNoise ==
    /\ main # <<>>
    /\ main.pc = "created"
    /\ LET self == main.map[1]
           cells == [xy \in (0..(self.width - 1)) \X (0..(self.height - 1)) |->
                        SampleCell(main.elevation_noise_generator[1],
                                   main.moisture_noise_generator[1], xy[1], xy[2])]
       IN  main' = [main EXCEPT
                       !.pc = "sampled",
                       !.map = Some(NewMap(self, CollectRows(cells, self.width,
                                                             self.height)))]
    /\ UNCHANGED <<mapVars, colorVars, normVars, configVars, noiseVars, sampleVars, lockVars>>

\* let (min_elevation, max_elevation, min_moisture, max_moisture) =
\*     map.iter().fold(..)
FoldMap ==
    /\ main # <<>>
    /\ main.pc = "sampled"
    /\ main' = [main EXCEPT
                   !.pc = "folded",
                   !.extent = Some(FoldExtent(main.map[1].inner, 1,
                                      [min_elevation |-> F64Max,
                                       max_elevation |-> F64Min,
                                       min_moisture |-> F64Max,
                                       max_moisture |-> F64Min]))]
    /\ UNCHANGED <<mapVars, colorVars, normVars, configVars, noiseVars, sampleVars, lockVars>>

\* map.and_then(|cell| .. normalize ..)
NormalizeCells ==
    /\ main # <<>>
    /\ main.pc = "folded"
    /\ LET self == main.map[1]
           cells == [i \in 0..(Len(self.inner) - 1) |->
                        NormalizeCell(self.inner[i + 1], main.extent[1])]
       IN  main' = [main EXCEPT
                       !.pc = "normalized",
                       !.map = Some(NewMap(self, CollectIndexed(cells, Len(self.inner))))]
    /\ UNCHANGED <<mapVars, colorVars, normVars, configVars, noiseVars, sampleVars, lockVars>>

\* map.and_then(|cell| if elevation < sea_level { ocean } else { evaluate })
ColourCells ==
    /\ main # <<>>
    /\ main.pc = "normalized"
    /\ \E done \in {[i \in 0..(Len(main.map[1].inner) - 1) |->
                        ColourCell(main.map[1].inner[i + 1], main.ocean[1],
                                   main.evaluator[1])]} :
           main' = [main EXCEPT
                       !.pc = "coloured",
                       !.colouring =
                           Some([cells |-> main.map[1].inner,
                                 calls |-> CollectIndexed(done, Len(main.map[1].inner))]),
                       !.map = Some(NewMap(main.map[1],
                                  CollectIndexed([i \in DOMAIN done |-> done[i].pixel],
                                                 Len(main.map[1].inner))))]
    /\ UNCHANGED <<mapVars, colorVars, normVars, configVars, noiseVars, sampleVars, lockVars>>

\* map.extract(pixel_map_to_image)
ExtractImage ==
    /\ main # <<>>
    /\ main.pc = "coloured"
    /\ main' = [main EXCEPT
                   !.pc = "extracted",
                   !.image = Some(PixelMapToImage(SinkArgs(main.map[1]).values,
                                                  SinkArgs(main.map[1]).width,
                                                  SinkArgs(main.map[1]).height)),
                   !.map = None]
    /\ UNCHANGED <<mapVars, colorVars, normVars, configVars, noiseVars, sampleVars, lockVars>>

\* image.save("image.png"): the image is handed to the encoder.
SaveImage ==
    /\ main # <<>>
    /\ main.pc = "extracted"
    /\ main' = [main EXCEPT !.pc = "saved", !.saved = main.image]
    /\ UNCHANGED <<mapVars, colorVars, normVars, configVars, noiseVars, sampleVars, lockVars>>

InitMain == MapInit /\ ColorIdle /\ NormIdle /\ ConfigIdle /\ NoiseIdle /\ MainInit
    /\ SampleIdle /\ LockIdle

NextMain ==
    \/ LookupElevationNoise
    \/ LookupMoistureNoise
    \/ LookupEvaluator
    \/ LookupOcean
    \/ CreateMap
    \/ SampleNoise
    \/ FoldMap
    \/ NormalizeCells
    \/ ColourCells
    \/ ExtractImage
    \/ SaveImage

SpecMain == InitMain /\ [][NextMain]_vars

(***************************************************************************)
(* Properties of the command line tool, checked under SpecMain.             *)
(***************************************************************************)

\* The positions of main from the first grid operation on.
GenerationStages ==
    {"created", "sampled", "folded", "normalized", "coloured", "extracted", "saved"}

\* C12: every configuration validation error is detected before generation:
\* main never stands at or after its first grid operation with a loaded
\* configuration that Config::validate rejects.
C12_ValidationPrecedesGeneration ==
    (main # <<>> /\ main.pc \in GenerationStages) =>
        ValidateResults(main.config) = {Ok}

\* C13: when the configuration lacks "elevation_noise", "moisture_noise",
\* "default" or "ocean", the lookup of that name yields None (nothing is put in
\* its place) and main stops with an error during assembly: no grid is created
\* or transformed and no image is written.
C13_LookupMissAborts ==
    (main # <<>>) =>
        /\ ("elevation_noise" \notin DOMAIN main.config.noise_generators) =>
              /\ main.elevation_noise_generator = None
              /\ main.pc \in {"loaded", "failed"}
        /\ ("moisture_noise" \notin DOMAIN main.config.noise_generators) =>
              /\ main.moisture_noise_generator = None
              /\ main.pc \in {"loaded", "elevation_noise", "failed"}
        /\ ("default" \notin DOMAIN main.config.biome_maps) =>
              /\ main.evaluator = None
              /\ main.pc \in {"loaded", "elevation_noise", "moisture_noise", "failed"}
        /\ ("ocean" \notin DOMAIN main.config.biomes) =>
              /\ main.ocean = None
              /\ main.pc \in {"loaded", "elevation_noise", "moisture_noise",
                              "evaluator", "failed"}
        /\ (main.pc = "failed") =>
              /\ main.error # None
              /\ main.map = None
              /\ main.image = None
              /\ main.saved = None

\* C13 witness: the last lookup, of the gradient "ocean", missed after the
\* three before it succeeded, and main stopped.
C13_Witness ==
    /\ main # <<>>
    /\ main.pc = "failed"
    /\ "ocean" \notin DOMAIN main.config.biomes
    /\ main.evaluator # None
    /\ main.moisture_noise_generator # None
    /\ main.width > 0
    /\ main.height > 0

\* C14: the engine fails fast on precondition violations: with a width or a
\* height of zero neither a noise field nor a grid is ever returned, and
\* evaluate is never answered from an empty band hierarchy.
C14_FailsFastOnPreconditions ==
    (main # <<>>) =>
        /\ (main.width = 0 \/ main.height = 0) =>
              /\ main.elevation_noise_generator = None
              /\ main.moisture_noise_generator = None
              /\ main.map = None
        /\ (main.evaluator = Some(<<>>) /\ main.colouring # None) =>
              \A i \in DOMAIN main.colouring[1].calls :
                  main.colouring[1].calls[i].evaluate_calls = <<>>

C20_ColouringPaths ==
    (main # <<>> /\ main.pc = "coloured") =>
        \A i \in DOMAIN main.colouring[1].cells :
            LET cell == main.colouring[1].cells[i]
                done == main.colouring[1].calls[i]
                pixel == main.map[1].inner[i]
            IN  /\ Len(done.ocean_calls) + Len(done.evaluate_calls) = 1
                /\ RatLt(cell.elevation, Rat(1, 20)) =>
                      /\ done.ocean_calls = <<RatDiv(cell.elevation, Rat(1, 20))>>
                      /\ pixel = GradientToRgb(main.ocean[1],
                                               RatDiv(cell.elevation, Rat(1, 20)))
                /\ RatLeq(Rat(1, 20), cell.elevation) =>
                      /\ done.evaluate_calls = <<cell>>
                      /\ pixel = ElevationLoop(main.evaluator[1], cell.elevation,
                                               cell.moisture, 1, Zero).color

\* C20 witness: under a valid configuration one cell lies strictly between 0
\* and the sea level and another at or above the sea level.
C20_Witness ==
    /\ main # <<>>
    /\ main.pc = "coloured"
    /\ ValidateResults(main.config) = {Ok}
    /\ \E i, j \in DOMAIN main.colouring[1].cells :
           /\ RatLt(Zero, main.colouring[1].cells[i].elevation)
           /\ RatLt(main.colouring[1].cells[i].elevation, Rat(1, 20))
           /\ RatLeq(Rat(1, 20), main.colouring[1].cells[j].elevation)
           /\ main.map[1].inner[i] # main.map[1].inner[j]


(***************************************************************************)
(* Sampling the noise over the grid, call by call: src/src/map.rs           *)
(* and_then_with_coordinates with the closure of src/src/cmd/main.rs that   *)
(* calls generate of src/src/noise.rs (specification SpecSample)            *)
(***************************************************************************)

\* The nested ranges with width and height exchanged.
CoordPairsSwapped(self) == (0..(self.height - 1)) \X (0..(self.width - 1))

\* (0..self.height) .. flat_map(|y| (0..self.width) .. map(|x| ..)): the items
\* of the nested ranges, as pairs <<x, y>>.
CoordPairs(self) == (0..(self.width - 1)) \X (0..(self.height - 1))

\* &inner_ref[y * self.width + x]: the index is checked, out of bounds panics.
InnerRefInBounds(self, x, y) == y * self.width + x < Len(self.inner)

\* self.circle_coords[x] in generate: the index is checked, out of bounds
\* panics.
CircleCoordsInBounds(field, x) == x < Len(field.circle_coords)

\* The grid of main (Map::return_single of the zero cell) and the two noise
\* fields of the configuration. In main the fields are built with the width
\* of the grid; a caller of the library may build them with another width.
SampleInit ==
    \E width \in 0..MaxWidth, height \in 0..MaxHeight, field_width \in 0..MaxWidth :
        sampling = [pc |-> "running",
                    self |-> [width |-> width, height |-> height,
                              inner |-> Fill(ZeroCell, width, height)],
                    elevation_noise_generator |->
                        GetNoiseGenerator(BaseConfig, "elevation_noise",
                                          field_width, height)[1],
                    moisture_noise_generator |->
                        GetNoiseGenerator(BaseConfig, "moisture_noise",
                                          field_width, height)[1],
                    pending |-> CoordPairs([width |-> width, height |-> height]),
                    invoked |-> <<>>,
                    cells |-> <<>>,
                    panic |-> "none"]

\* One worker takes the item <<x, y>> of the nested ranges and runs
\* f(&inner_ref[y * self.width + x], x, y); f calls generate(x, y) of the
\* elevation field and then of the moisture field. A panic of a worker leaves
\* the other items to run or not, as the pool decides.
SampleCall(x, y) ==
    /\ sampling # <<>>
    /\ sampling.pc = "running"
    /\ <<x, y>> \in sampling.pending
    /\ LET self == sampling.self
           e == sampling.elevation_noise_generator
           m == sampling.moisture_noise_generator
           taken == [sampling EXCEPT !.pending = @ \ {<<x, y>>}]
           called == [taken EXCEPT
                         !.invoked = IF <<x, y>> \in DOMAIN @
                                     THEN [@ EXCEPT ![<<x, y>>] = @ + 1]
                                     ELSE @ @@ (<<x, y>> :> 1)]
       IN  sampling' =
               IF ~InnerRefInBounds(self, x, y)
               THEN [taken EXCEPT !.panic = "inner_ref"]
               ELSE IF ~CircleCoordsInBounds(e, x) \/ ~CircleCoordsInBounds(m, x)
               THEN [called EXCEPT !.panic = "circle_coords"]
               ELSE [called EXCEPT
                        !.cells = @ @@ (<<x, y>> :> SampleCell(e, m, x, y))]
    /\ UNCHANGED <<mapVars, colorVars, normVars, configVars, noiseVars, mainVars, lockVars>>

\* The panic of a worker is propagated to the caller of collect().
SampleUnwind ==
    /\ sampling # <<>>
    /\ sampling.pc = "running"
    /\ sampling.panic # "none"
    /\ sampling' = [sampling EXCEPT !.pc = "panicked"]
    /\ UNCHANGED <<mapVars, colorVars, normVars, configVars, noiseVars, mainVars, lockVars>>

\* Every item is done: collect() and Map { .. inner: new_inner }.
SampleCollect ==
    /\ sampling # <<>>
    /\ sampling.pc = "running"
    /\ sampling.pending = {}
    /\ sampling.panic = "none"
    /\ sampling' = [sampling EXCEPT
                       !.pc = "done",
                       !.self = NewMap(sampling.self,
                                       CollectRows(sampling.cells,
                                                   sampling.self.width,
                                                   sampling.self.height))]
    /\ UNCHANGED <<mapVars, colorVars, normVars, configVars, noiseVars, mainVars, lockVars>>

InitSample ==
    /\ MapInit /\ ColorIdle /\ NormIdle /\ ConfigIdle /\ NoiseIdle /\ MainIdle
    /\ LockIdle
    /\ SampleInit

NextSample ==
    \/ \E x \in 0..MaxWidth, y \in 0..MaxWidth : SampleCall(x, y)
    \/ SampleUnwind
    \/ SampleCollect

SpecSample == InitSample /\ [][NextSample]_vars

\* C21: during and_then_with_coordinates on a width x height grid, f is only
\* invoked for pairs with 0 <= x < width and 0 <= y < height and at most once
\* for each; when the call has returned, f was invoked exactly once for every
\* such pair; and when the noise fields were built with the width of the grid,
\* no lookup circle_coords[x] (nor any other index) is out of bounds.
C21_EachPairOnce ==
    sampling # <<>> =>
        LET w == sampling.self.width
            h == sampling.self.height
        IN  /\ \A p \in DOMAIN sampling.invoked :
                   /\ p[1] >= 0 /\ p[1] < w
                   /\ p[2] >= 0 /\ p[2] < h
                   /\ sampling.invoked[p] = 1
            /\ sampling.pc = "done" =>
                   /\ DOMAIN sampling.invoked = (0..(w - 1)) \X (0..(h - 1))
                   /\ Len(sampling.self.inner) = w * h
            /\ ( /\ Len(sampling.elevation_noise_generator.circle_coords) = w
                 /\ Len(sampling.moisture_noise_generator.circle_coords) = w )
                   => sampling.panic = "none"

\* The 3 x 2 grid was sampled from fields of width 3 and the call returned.
C21_Witness ==
    /\ sampling # <<>>
    /\ sampling.pc = "done"
    /\ sampling.self.width = 3
    /\ sampling.self.height = 2
    /\ Len(sampling.elevation_noise_generator.circle_coords) = 3
    /\ Cardinality(DOMAIN sampling.invoked) = 6

\* A field narrower than the grid makes generate panic on circle_coords[x].
C21_NarrowFieldPanics ==
    /\ sampling # <<>>
    /\ sampling.panic = "circle_coords"
    /\ Len(sampling.elevation_noise_generator.circle_coords) < sampling.self.width


(***************************************************************************)
(* The colouring and_then, worker by worker: the closure of                 *)
(* src/src/cmd/main.rs that locks the ocean gradient or calls evaluate of   *)
(* src/src/lib/color.rs, which locks the gradient of the selected band      *)
(* (specifications SpecLock and, with fair scheduling, SpecLockFair)        *)
(***************************************************************************)

\* The number of threads of the pool.
MaxWorkers == 2

Workers == 1..MaxWorkers

\* let ocean = config.get_color_func("ocean")..: the Mutex of the ocean gradient.
OceanLock == <<0, 0>>

\* No gradient is locked: evaluate found no band for the cell.
NoLock == <<0, 1>>

\* let evaluator = config.get_color_evaluator("default")..
LockEvaluator == GetColorEvaluator(BaseConfig, "default")[1]

\* let ocean = config.get_color_func("ocean")..
LockOcean == ConfigGetColorFunc(BaseConfig, "ocean")[1]

\* One Mutex per get_color_func call: the ocean gradient and the gradient of
\* every moisture level of every elevation range.
GradientLocks ==
    {OceanLock} \cup
    UNION {{<<i, j>> : j \in DOMAIN LockEvaluator[i].moisture_gradients} :
              i \in DOMAIN LockEvaluator}

\* Normalized cells: one below the sea level, one for each band of the
\* evaluator, and the cell of a grid whose values were all equal.
LockCellValues ==
    <<[elevation |-> Rat(1, 40), moisture |-> Rat(1, 2)],
      [elevation |-> Rat(1, 4), moisture |-> Rat(1, 4)],
      [elevation |-> Rat(1, 2), moisture |-> Rat(1, 2)],
      [elevation |-> Rat(1, 4), moisture |-> Rat(1, 2)],
      [elevation |-> NaN, moisture |-> NaN]>>

\* The rows of cells that are coloured: every cell the same value, or the
\* values in rotation from value k on.
LockRows ==
    {[i \in 1..MaxWidth |-> LockCellValues[k]] : k \in DOMAIN LockCellValues} \cup
    {[i \in 1..MaxWidth |-> LockCellValues[((i + k) % Len(LockCellValues)) + 1]] :
        k \in DOMAIN LockCellValues}

\* The closure up to the lock() it reaches: the Mutex, the gradient behind it
\* and the argument the gradient closure will be called with.
Route(cell) ==
    IF RatLt(cell.elevation, SeaLevel)
    THEN [target |-> OceanLock,
          gradient |-> LockOcean,
          arg |-> Normalize(cell.elevation, Zero, SeaLevel)]
    ELSE LET r == ElevationLoop(LockEvaluator, cell.elevation, cell.moisture, 1, Zero)
         IN  IF r.moisture = 0
             THEN [target |-> NoLock, gradient |-> <<>>, arg |-> NoArg]
             ELSE [target |-> <<r.elevation, r.moisture>>,
                   gradient |-> LockEvaluator[r.elevation]
                                    .moisture_gradients[r.moisture].get_color,
                   arg |-> r.arg]

\* The closure is a pure function of the cell: the Mutex it locks and the pixel
\* the gradient closure returns are fixed by the cell.
Planned(cell) ==
    LET r == Route(cell)
    IN  [cell |-> cell,
         target |-> r.target,
         pixel |-> IF r.target = NoLock THEN DefaultColor
                   ELSE GradientToRgb(r.gradient, r.arg)]

\* lock() that does not wait for the holder.
LockFreeAlways(h, g) == TRUE

\* Mutex::lock returns when no thread holds the Mutex.
LockFree(h, g) == h[g] = 0

\* The MutexGuard of worker w is dropped.
DropGuard(h, w) == [g \in DOMAIN h |-> IF h[g] = w THEN 0 ELSE h[g]]

IdleWorker == [pc |-> "idle", cell |-> 0, target |-> NoLock, color |-> DefaultColor]

\* The cells a worker has taken from the parallel iterator.
TakenCells ==
    DOMAIN coloured \cup {worker[w].cell : w \in {v \in Workers : worker[v].pc # "idle"}}

\* map.and_then(..) starts: no cell is coloured, no Mutex is held.
LockInit ==
    /\ \E row \in LockRows : tasks = [c \in DOMAIN row |-> Planned(row[c])]
    /\ worker = [w \in Workers |-> IdleWorker]
    /\ holder = [g \in GradientLocks |-> 0]
    /\ coloured = <<>>

\* Worker w takes cell c and runs the closure up to lock(), or to the end of
\* evaluate when no band is selected.
TakeCell(w, c) ==
    /\ worker # <<>>
    /\ worker[w].pc = "idle"
    /\ c \in DOMAIN tasks
    /\ c \notin TakenCells
    /\ worker' = [worker EXCEPT ![w] =
                      [pc |-> IF tasks[c].target = NoLock THEN "got" ELSE "want",
                       cell |-> c,
                       target |-> tasks[c].target,
                       color |-> DefaultColor]]
    /\ UNCHANGED <<tasks, holder, coloured>>
    /\ UNCHANGED <<mapVars, colorVars, normVars, configVars, noiseVars, mainVars, sampleVars>>

\* get_color.lock().expect(..) / ocean.lock().expect(..) returns the guard.
Acquire(w) ==
    /\ worker # <<>>
    /\ worker[w].pc = "want"
    /\ LockFree(holder, worker[w].target)
    /\ holder' = [holder EXCEPT ![worker[w].target] = w]
    /\ worker' = [worker EXCEPT ![w].pc = "inside"]
    /\ UNCHANGED <<tasks, coloured>>
    /\ UNCHANGED <<mapVars, colorVars, normVars, configVars, noiseVars, mainVars, sampleVars>>

\* get_color(normalized_elevation): the gradient closure runs under the guard.
CallGradient(w) ==
    /\ worker # <<>>
    /\ worker[w].pc = "inside"
    /\ worker' = [worker EXCEPT
                     ![w].pc = "got",
                     ![w].color = tasks[worker[w].cell].pixel]
    /\ UNCHANGED <<tasks, holder, coloured>>
    /\ UNCHANGED <<mapVars, colorVars, normVars, configVars, noiseVars, mainVars, sampleVars>>

\* The guard goes out of scope and the closure of and_then returns the pixel.
ReturnPixel(w) ==
    /\ worker # <<>>
    /\ worker[w].pc = "got"
    /\ holder' = DropGuard(holder, w)
    /\ coloured' = coloured @@ (worker[w].cell :> worker[w].color)
    /\ worker' = [worker EXCEPT ![w] = IdleWorker]
    /\ UNCHANGED tasks
    /\ UNCHANGED <<mapVars, colorVars, normVars, configVars, noiseVars, mainVars, sampleVars>>

\* The steps of worker w.
WorkerStep(w) ==
    \/ \E c \in 1..MaxWidth : TakeCell(w, c)
    \/ Acquire(w)
    \/ CallGradient(w)
    \/ ReturnPixel(w)

InitLock ==
    /\ MapInit /\ ColorIdle /\ NormIdle /\ ConfigIdle /\ NoiseIdle /\ MainIdle
    /\ SampleIdle
    /\ LockInit

NextLock == \E w \in Workers : WorkerStep(w)

SpecLock == InitLock /\ [][NextLock]_vars

\* The threads of the pool are scheduled by the operating system: a thread
\* that can take a step for ever takes one.
SpecLockFair == SpecLock /\ \A w \in Workers : WF_vars(WorkerStep(w))

\* The Mutexes worker w holds.
HeldBy(w) == {g \in DOMAIN holder : holder[g] = w}

\* A worker holds at most one gradient lock, and only between lock() and the
\* return of its call; no two workers are inside the closure of one gradient.
LockSafety ==
    worker # <<>> =>
        /\ \A w \in Workers :
               /\ Cardinality(HeldBy(w)) <= 1
               /\ worker[w].pc \in {"inside", "got"} /\ worker[w].target # NoLock
                      => HeldBy(w) = {worker[w].target}
               /\ worker[w].pc \in {"idle", "want"} => HeldBy(w) = {}
        /\ \A v, w \in Workers :
               ( /\ v # w
                 /\ worker[v].pc = "inside"
                 /\ worker[w].pc = "inside" )
                   => worker[v].target # worker[w].target

\* The colouring and_then is finished: every cell has its pixel, every worker
\* has returned and every Mutex is unlocked.
AllColoured ==
    /\ worker # <<>>
    /\ DOMAIN coloured = DOMAIN tasks
    /\ \A w \in Workers : worker[w].pc = "idle"
    /\ \A g \in DOMAIN holder : holder[g] = 0
    /\ \A c \in DOMAIN tasks :
           coloured[c] = ColourCell(tasks[c].cell, LockOcean, LockEvaluator).pixel

\* C22: with parallel workers colouring cells through the mutex-guarded
\* gradient closures, each worker holds at most one gradient lock at a time,
\* at most one worker is inside a given gradient's closure, every acquired
\* lock is released when the call returns, and under fair scheduling every
\* worker's call completes and the colouring ends with all cells coloured.
C22_LocksAreSafeAndLive ==
    /\ []LockSafety
    /\ \A w \in Workers : (worker[w].pc # "idle") ~> (worker[w].pc = "idle")
    /\ <>[]AllColoured

\* One worker is inside the closure of a gradient while the other waits in
\* lock() for the same gradient.
C22_Witness ==
    /\ worker # <<>>
    /\ \E v, w \in Workers :
           /\ worker[v].pc = "inside"
           /\ worker[w].pc = "want"
           /\ worker[w].target = worker[v].target
           /\ holder[worker[v].target] = v


(***************************************************************************)
(* Band selection of an evaluator built from a valid configuration          *)
(* (specification SpecColor)                                                *)
(***************************************************************************)

\* What Biomes::validate and ElevationLevel::validate accept, as far as band
\* selection goes: at least one elevation level, every elevation weight above
\* 0, at least one moisture level in every elevation level, every moisture
\* weight above 0. (The colours of the model's gradients are already parsed.)
PassesValidation(levels) ==
    /\ Len(levels) >= 1
    /\ \A i \in 1..Len(levels) :
           /\ levels[i].elevation > 0
           /\ Len(levels[i].moisture_levels) >= 1
           /\ \A j \in 1..Len(levels[i].moisture_levels) :
                  /\ levels[i].moisture_levels[j].moisture > 0
                  /\ Len(levels[i].moisture_levels[j].gradient) >= 1

\* 0 <= x <= 1
InUnitInterval(x) == RatLeq(Zero, x) /\ RatLeq(x, One)

\* C23: for an evaluator built from a configuration that passes validation,
\* every call of evaluate with elevation and moisture in [0,1] selects one
\* elevation band and one moisture band of it, and the colour it returns is
\* the colour of that band's configured gradient at the argument computed for
\* it, not the default the function starts with.
C23_ValidConfigSelectsBand ==
    ( /\ cpc = "evaluated"
      /\ PassesValidation(biomes)
      /\ InUnitInterval(call.elevation)
      /\ InUnitInterval(call.moisture) )
        => /\ sel.elevation \in 1..Len(elevation_ranges)
           /\ sel.moisture \in 1..Len(SelectedGradients)
           /\ SelectedGradients[sel.moisture].get_color
                  = biomes[sel.elevation].moisture_levels[sel.moisture].gradient
           /\ gradient_arg # NoArg
           /\ final_color = GradientToRgb(SelectedGradients[sel.moisture].get_color,
                                          gradient_arg)

\* C23 witness: evaluate(1, 1) on an evaluator of two elevation bands, the
\* second with its moisture band: both values lie on the last thresholds and
\* the last bands were selected.
C23_Witness ==
    /\ cpc = "evaluated"
    /\ PassesValidation(biomes)
    /\ Len(elevation_ranges) = 2
    /\ call.elevation = One
    /\ call.moisture = One
    /\ sel.elevation = 2
    /\ sel.moisture = Len(elevation_ranges[2].moisture_gradients)
    /\ final_color # DefaultColor


(***************************************************************************)
(* The min/max reduction and the normalization of main                      *)
(* (specification SpecMain)                                                 *)
(***************************************************************************)

\* The elevations, and the moistures, of a sequence of cells.
ElevationsOf(cells) == [i \in DOMAIN cells |-> cells[i].elevation]
MoisturesOf(cells) == [i \in DOMAIN cells |-> cells[i].moisture]

\* The sequence in the opposite order.
Reversed(cells) == [i \in DOMAIN cells |-> cells[Len(cells) + 1 - i]]

\* lo and hi are the least and the greatest of the values.
IsExtentOf(lo, hi, values) ==
    /\ \E i \in DOMAIN values : values[i] = lo
    /\ \E i \in DOMAIN values : values[i] = hi
    /\ \A i \in DOMAIN values : RatLeq(lo, values[i]) /\ RatLeq(values[i], hi)

\* The values `after` are the values `before` brought to [0,1]: the least is at
\* 0, the greatest at 1 and the order of the cells is kept.
IsRescaled(before, after) ==
    /\ DOMAIN after = DOMAIN before
    /\ \A i \in DOMAIN after : RatLeq(Zero, after[i]) /\ RatLeq(after[i], One)
    /\ \E i \in DOMAIN after : after[i] = Zero
    /\ \E i \in DOMAIN after : after[i] = One
    /\ \A i, j \in DOMAIN after :
           /\ RatLt(before[i], before[j]) <=> RatLt(after[i], after[j])
           /\ before[i] = before[j] <=> after[i] = after[j]

\* At least two of the values differ.
HasTwoValues(values) == \E i, j \in DOMAIN values : values[i] # values[j]

\* The fold has run over a grid with cells: its result is the least and the
\* greatest elevation and moisture of the grid, whatever the order of the fold.
ReductionIsExtent ==
    ( /\ main # <<>>
      /\ main.pc = "folded"
      /\ Len(main.map[1].inner) >= 1 )
        => LET cells == main.map[1].inner
               extent == main.extent[1]
           IN  /\ IsExtentOf(extent.min_elevation, extent.max_elevation,
                             ElevationsOf(cells))
               /\ IsExtentOf(extent.min_moisture, extent.max_moisture,
                             MoisturesOf(cells))
               /\ extent = FoldExtent(Reversed(cells), 1,
                                      [min_elevation |-> F64Max,
                                       max_elevation |-> F64Min,
                                       min_moisture |-> F64Max,
                                       max_moisture |-> F64Min])

\* The step of the normalizing and_then: values of which two differ are
\* rescaled to [0,1]; values that are all the same (max = min) are divided by
\* zero and come out as NaN.
NormalizationRescales ==
    ( /\ main # <<>>
      /\ main.pc = "folded"
      /\ main'.pc = "normalized"
      /\ Len(main.map[1].inner) >= 1 )
        => LET before == main.map[1].inner
               after == main'.map[1].inner
           IN  /\ HasTwoValues(ElevationsOf(before))
                      => IsRescaled(ElevationsOf(before), ElevationsOf(after))
               /\ HasTwoValues(MoisturesOf(before))
                      => IsRescaled(MoisturesOf(before), MoisturesOf(after))
               /\ ~HasTwoValues(ElevationsOf(before))
                      => \A i \in DOMAIN after : IsNaN(after[i].elevation)
               /\ ~HasTwoValues(MoisturesOf(before))
                      => \A i \in DOMAIN after : IsNaN(after[i].moisture)

\* C24: the reduction yields the least and greatest elevation and moisture of
\* the grid independently of the fold order; the normalization that follows
\* brings a field with at least two distinct values to [0,1], with some cell at
\* 0, some cell at 1 and the order of the cells unchanged; a field whose cells
\* all share one value is divided by zero and does not end in [0,1].
C24_NormalizationToUnitRange ==
    /\ []ReductionIsExtent
    /\ [][NormalizationRescales]_vars

\* C24 witness: a normalized grid with three distinct elevations (0, 1 and one
\* in between) and both 0 and 1 among its moistures.
C24_Witness ==
    /\ main # <<>>
    /\ main.pc = "normalized"
    /\ \E i, j, k \in DOMAIN main.map[1].inner :
           /\ main.map[1].inner[i].elevation = Zero
           /\ main.map[1].inner[j].elevation = One
           /\ RatLt(Zero, main.map[1].inner[k].elevation)
           /\ RatLt(main.map[1].inner[k].elevation, One)
    /\ \E i, j \in DOMAIN main.map[1].inner :
           /\ main.map[1].inner[i].moisture = Zero
           /\ main.map[1].inner[j].moisture = One

\* A normalized grid whose cells all shared one elevation: every elevation is
\* NaN.
C24_DividedByZero ==
    /\ main # <<>>
    /\ main.pc = "normalized"
    /\ Len(main.map[1].inner) >= 1
    /\ \A i \in DOMAIN main.map[1].inner : IsNaN(main.map[1].inner[i].elevation)

====
